---- MODULE Spec2Model ----
EXTENDS Integers, Sequences, FiniteSets, TLC

(***************************************************************************)
(* LinguaLink AI: the translation request pipeline (POST/GET /translate,   *)
(* translateText, detectLanguage, validateTranslationInput) and the        *)
(* persistence adapter (getTranslationHistory, deleteTranslation, the      *)
(* /history route, the history view's delete handler).                     *)
(*                                                                         *)
(* A text is a sequence of runs [ch, n]: n copies of the character ch.     *)
(* " " stands for any whitespace character, every other ch for a           *)
(* non-whitespace one.  Language names and messages are strings.           *)
(***************************************************************************)

VARIABLES
    apiKey,          \* process.env.OPENAI_API_KEY
    pc,              \* where the running handler is suspended
    entry,           \* the entry point that is running
    req,             \* its arguments
    actualSourceLang,\* POST: the source language handed to translateText
    detected,        \* POST: what detectLanguage returned
    translateSource, \* sourceLanguage argument of the translateText call
    outcome,         \* what translateText / validateTranslationInput produced
    response,        \* the HTTP response of a route handler
    apiCalls,        \* calls of chat.completions.create made by this handler
    sent,            \* HTTP requests the OpenAI client sent for them, retries included
    lastFailure,     \* the previous failure translateText surfaced
    store,           \* the object store: id -> record
    op,              \* the persistence operation in flight
    found,           \* the objects the store answered a find with
    result,          \* what the adapter function returned or threw
    hresponse,       \* the HTTP response of the /history route
    translations,    \* page state: the displayed history list
    isDeleting,      \* TranslationHistory state
    toast,           \* the last toast shown by the history view
    sourceText,      \* TranslationInterface state
    translatedText,
    confidence,
    alternatives,
    autoDetect,
    sourceLang,
    isTranslating,
    timeout,         \* the pending timer of the current debouncedTranslate closure
    stale,           \* pending timers of closures of earlier renders
    flows,           \* runs of the debounced callback suspended at an await
    notice,          \* the last toast shown by TranslationInterface
    features,        \* what the browser's window object offers
    refs,            \* speechRecognition.current / speechSynthesis.current of a component
    recognizer,      \* the browser's recogniser: idle, starting, active, stopping, ending
    isListening,     \* SpeechRecognition.isListening
    recCalls,        \* start() / stop() calls on the recogniser since it was last idle
    notified,        \* onResult(transcript, isFinal) calls of the current session
    reported,        \* the last message handed to onError or shown as an error toast
    spoken,          \* the utterances handed to speak: promise and engine state
    uncaught,        \* the exception that escaped a component, if any
    languageStore,   \* the object store: the objects of type 'languages'
    lresponse,       \* the HTTP response of the /languages route
    languages,       \* page state: the languages offered by the selectors
    isLoading,       \* page state
    messages,        \* ConversationMode state: the messages of the session
    talking,         \* handleMessage calls suspended at await translateText
    toSpeak,         \* pending timers of the auto-speak
    saving,          \* saveSession calls suspended at await saveConversationSession
    saved,           \* the message lists saveConversationSession was called with
    conversations,   \* the object store: the objects of type 'conversations'
    appended,        \* every message appended since the session began
    handed,          \* the number of final transcripts handed to handleMessage
    cnotice,         \* the last toast shown by ConversationMode
    targetLang,      \* TranslationInterface state
    TI_isListening,  \* TranslationInterface state: isListening
    CM_isListening,  \* ConversationMode state: isListening
    currentSpeaker,  \* ConversationMode state
    cbSpeaker        \* the speaker the callbacks installed by ConversationMode captured

apiVars == <<apiKey, pc, entry, req, actualSourceLang, detected, translateSource,
             outcome, response, apiCalls, sent, lastFailure>>

storeVars == <<store, op, found, result, hresponse, translations, isDeleting, toast>>

uiVars == <<sourceText, translatedText, confidence, alternatives, autoDetect, sourceLang,
            isTranslating, timeout, stale, flows, notice>>

speechVars == <<features, refs, recognizer, isListening, recCalls, notified, reported,
                spoken, uncaught>>

pageVars == <<languageStore, lresponse, languages, isLoading>>

convVars ==
    <<messages, talking, toSpeak, saving, saved, conversations, appended, handed, cnotice>>

cmVars == <<CM_isListening, currentSpeaker, cbSpeaker>>

ctlVars == <<targetLang, TI_isListening, cmVars>>

frontVars == <<uiVars, speechVars, pageVars, convVars, ctlVars>>

notUi == <<apiVars, storeVars, speechVars, pageVars, convVars, ctlVars>>

notSpeech == <<apiVars, storeVars, uiVars, pageVars, convVars, ctlVars>>

notConv == <<apiVars, storeVars, uiVars, pageVars, ctlVars>>

notVoice == <<apiVars, storeVars, pageVars>>

vars == <<apiVars, storeVars, frontVars>>

----------------------------------------------------------------------------
(* Texts *)

Run(c, k) == [ch |-> c, n |-> k]

RECURSIVE Length(_)
Length(t) == IF t = <<>> THEN 0 ELSE Head(t).n + Length(Tail(t))

RECURSIVE TrimStart(_)
TrimStart(t) ==
    IF t = <<>> THEN <<>>
    ELSE IF Head(t).ch = " " THEN TrimStart(Tail(t)) ELSE t

RECURSIVE TrimEnd(_)
TrimEnd(t) ==
    IF t = <<>> THEN <<>>
    ELSE IF t[Len(t)].ch = " " THEN TrimEnd(SubSeq(t, 1, Len(t) - 1)) ELSE t

Trim(t) == TrimEnd(TrimStart(t))

MaxTextLength == 5000

DetectMinLength == 10

DetectMinTrimmed == 3

DetectMaxReply == 50

ConfidenceSameLanguage == 100

ConfidenceProvider == 95

Str(t) == [type |-> "string", runs |-> t]

NotAString == {[type |-> "undefined", runs |-> <<>>], [type |-> "number", runs |-> <<>>]}

----------------------------------------------------------------------------
(* validateTranslationInput *)

MsgEnterText == "Please enter text to translate"

MsgLessThanMax == "Text must be less than 5000 characters"

\* the text tested without trim()
IsBlank_NoTrim(t) == Length(t) = 0

IsBlank(t) == Length(t) = 0 \/ Length(Trim(t)) = 0

\* the length check left out
TooLong_Never(t) == FALSE

TooLong(t) == Length(t) > MaxTextLength

validateTranslationInput(t) ==
    IF IsBlank(t) THEN [isValid |-> FALSE, error |-> MsgEnterText]
    ELSE IF TooLong(t) THEN [isValid |-> FALSE, error |-> MsgLessThanMax]
    ELSE [isValid |-> TRUE, error |-> ""]

----------------------------------------------------------------------------
(* The completion-API credential and client *)

Key(isSet, chars) == [set |-> isSet, val |-> chars]

KeyMissing(k) == ~k.set \/ k.val = <<>>

\* the prefix test left out
StartsWithSk_Always(k) == TRUE

StartsWithSk(k) == Len(k.val) >= 3 /\ SubSeq(k.val, 1, 3) = <<"s", "k", "-">>

Err(m, s, c) == [message |-> m, status |-> s, code |-> c]

NoErr == Err("", 0, "")

MsgEnvRequired == "OPENAI_API_KEY environment variable is required. Please add your OpenAI API key to your environment variables."

MsgKeyFormat == "Invalid OpenAI API key format. API key should start with \"sk-\"."

getOpenAIClient(k) ==
    IF KeyMissing(k) THEN [ok |-> FALSE, error |-> Err(MsgEnvRequired, 0, ""), class |-> "missing"]
    ELSE IF ~StartsWithSk(k) THEN [ok |-> FALSE, error |-> Err(MsgKeyFormat, 0, ""), class |-> "malformed"]
    ELSE [ok |-> TRUE, error |-> NoErr, class |-> "none"]

----------------------------------------------------------------------------
(* What the completion API may answer.  A failure carries the class of     *)
(* its cause next to the error object the client library throws.           *)

RawAuth == "Incorrect API key provided"

RawRate == "Rate limit reached for requests"

RawOverloaded == "The server is overloaded"

RawBadGateway == "Bad gateway"

RawUpstreamTimeout == "upstream request timeout"

RawAborted == "Request aborted"

RawTimeout == "timeout of 30000ms exceeded"

RawNotFound == "getaddrinfo failed"

RawNetwork == "network request failed"

RawInternal == "Internal server error"

Failure(e, c) == [ok |-> FALSE, content |-> <<>>, error |-> e, class |-> c]

Success(t) == [ok |-> TRUE, content |-> t, error |-> NoErr, class |-> "none"]

ProviderFailures ==
    { Failure(Err(RawAuth, 401, ""), "auth"),
      Failure(Err(RawRate, 429, ""), "rate"),
      Failure(Err(RawOverloaded, 503, ""), "unavailable"),
      Failure(Err(RawBadGateway, 502, ""), "unavailable"),
      Failure(Err(RawUpstreamTimeout, 503, ""), "unavailable"),
      Failure(Err(RawAborted, 0, "ECONNABORTED"), "timeout"),
      Failure(Err(RawTimeout, 0, ""), "timeout"),
      Failure(Err(RawNotFound, 0, "ENOTFOUND"), "network"),
      Failure(Err(RawNetwork, 0, ""), "network"),
      Failure(Err(RawInternal, 500, ""), "generic"),
      Failure(Err("", 500, ""), "generic") }

Includes(m, needle) ==
    CASE needle = "OPENAI_API_KEY" -> m = MsgEnvRequired
      [] needle = "timeout" -> m \in {RawTimeout, RawUpstreamTimeout}
      [] needle = "network" -> m = RawNetwork
      [] OTHER -> FALSE

----------------------------------------------------------------------------
(* translateText *)

MsgEmptyText == "Text to translate cannot be empty"

MsgLanguagesRequired == "Source and target languages are required"

MsgTooLong == "Text is too long. Please limit to 5000 characters."

MsgNoTranslation == "No translation received from OpenAI"

MsgKeyMissingOrInvalid == "OpenAI API key is missing or invalid. Please check your environment variables."

MsgAuthRejected == "Invalid OpenAI API key. Please verify your API key is correct and active."

MsgRateLimit == "OpenAI API rate limit exceeded. Please wait a moment and try again."

MsgUnavailable == "OpenAI service is temporarily unavailable. Please try again in a moment."

MsgTimeout == "Translation request timed out. Please try again with shorter text."

MsgNetwork == "Network error. Please check your internet connection and try again."

MsgTranslationFailed == "Translation failed. Please try again."

IsKeyError(e) == Includes(e.message, "OPENAI_API_KEY")

\* status 502 left out
IsUnavailable_Only503(e) == e.status = 503

IsUnavailable(e) == e.status = 503 \/ e.status = 502

IsTimeout(e) == e.code = "ECONNABORTED" \/ Includes(e.message, "timeout")

IsNetwork(e) == e.code = "ENOTFOUND" \/ Includes(e.message, "network")

MapTranslateError(e) ==
    IF IsKeyError(e) THEN MsgKeyMissingOrInvalid
    ELSE IF e.status = 401 THEN MsgAuthRejected
    ELSE IF e.status = 429 THEN MsgRateLimit
    ELSE IF IsUnavailable(e) THEN MsgUnavailable
    ELSE IF IsTimeout(e) THEN MsgTimeout
    ELSE IF IsNetwork(e) THEN MsgNetwork
    ELSE IF e.message # "" THEN e.message
    ELSE MsgTranslationFailed

NoOutcome ==
    [kind |-> "none", message |-> "", translatedText |-> <<>>, sourceLanguage |-> "",
     targetLanguage |-> "", confidence |-> 0, alternatives |-> <<>>, class |-> "none"]

Returned(t, s, g, c) ==
    [NoOutcome EXCEPT !.kind = "return", !.translatedText = t, !.sourceLanguage = s,
                      !.targetLanguage = g, !.confidence = c]

Thrown(e, c) == [NoOutcome EXCEPT !.kind = "throw", !.message = MapTranslateError(e), !.class = c]

Pending == [NoOutcome EXCEPT !.kind = "request"]

\* the short-circuit left out
SameLanguage_Never(s, g) == FALSE

SameLanguage(s, g) == s = g

\* translateText up to its first await: a result, a rejection, or a request
translateTextSync(t, s, g, k) ==
    IF IsBlank(t) THEN Thrown(Err(MsgEmptyText, 0, ""), "input")
    ELSE IF s = "" \/ g = "" THEN Thrown(Err(MsgLanguagesRequired, 0, ""), "input")
    ELSE IF SameLanguage(s, g) THEN Returned(t, s, g, ConfidenceSameLanguage)
    ELSE IF TooLong(t) THEN Thrown(Err(MsgTooLong, 0, ""), "input")
    ELSE IF ~getOpenAIClient(k).ok
         THEN Thrown(getOpenAIClient(k).error, getOpenAIClient(k).class)
    ELSE Pending

\* translateText from the provider's answer on
\* the confidence taken from the length of the answer
translateTextReply_Derived(s, g, r) ==
    IF ~r.ok THEN Thrown(r.error, r.class)
    ELSE IF Length(Trim(r.content)) = 0 THEN Thrown(Err(MsgNoTranslation, 0, ""), "generic")
    ELSE Returned(Trim(r.content), s, g, 90 + Length(Trim(r.content)))

translateTextReply(s, g, r) ==
    IF ~r.ok THEN Thrown(r.error, r.class)
    ELSE IF Length(Trim(r.content)) = 0 THEN Thrown(Err(MsgNoTranslation, 0, ""), "generic")
    ELSE Returned(Trim(r.content), s, g, ConfidenceProvider)

----------------------------------------------------------------------------
(* detectLanguage *)

Unknown == "Unknown"

\* a detection answer: pad whitespace characters around name, nl: it holds a line break
Content(p, nm, b) == [pad |-> p, name |-> nm, nl |-> b]

DetectSuccess(c) == [ok |-> TRUE, content |-> c, error |-> NoErr, class |-> "none"]

DetectFailure(e, c) == [ok |-> FALSE, content |-> Content(0, "", FALSE), error |-> e, class |-> c]

TrimContent(c) == [c EXCEPT !.pad = 0]

ContentLength(c) == c.pad + Len(c.name)

\* detectLanguage up to its first await: "" stands for "a request is sent"
detectLanguageSync(t, k) ==
    IF Length(t) = 0 \/ Length(Trim(t)) < DetectMinTrimmed THEN Unknown
    ELSE IF ~getOpenAIClient(k).ok THEN Unknown
    ELSE ""

ValidDetection(c) == c.name # "" /\ ContentLength(c) < DetectMaxReply /\ ~c.nl

detectLanguageReply(r) ==
    IF ~r.ok THEN Unknown
    ELSE IF ValidDetection(TrimContent(r.content)) THEN TrimContent(r.content).name
    ELSE Unknown


----------------------------------------------------------------------------
(* Inputs of the pipeline *)

Hello == <<Run("a", 5)>>

Texts ==
    { <<>>,
      <<Run(" ", 3)>>,
      Hello,
      <<Run("a", DetectMinLength)>>,
      <<Run("a", 5), Run(" ", 1), Run("a", 6)>>,
      <<Run(" ", 5), Run("a", 1), Run(" ", 5)>>,
      <<Run("a", MaxTextLength)>>,
      <<Run("a", MaxTextLength + 1)>>,
      <<Run(" ", MaxTextLength + 1)>> }

Languages == {"", "English", "Spanish"}

Keys ==
    { Key(FALSE, <<>>), Key(TRUE, <<>>), Key(TRUE, <<"p", "k", "-", "1">>),
      Key(TRUE, <<"s", "k">>), Key(TRUE, <<"s", "k", "-", "1">>) }

Bodies ==
    [json : {"object"}, text : {Str(t) : t \in Texts} \cup NotAString,
     sourceLanguage : Languages, targetLanguage : Languages, autoDetect : BOOLEAN]
    \cup
    [json : {"invalid", "null"}, text : {Str(<<>>)},
     sourceLanguage : {""}, targetLanguage : {""}, autoDetect : {FALSE}]

NoReq == [json |-> "none", text |-> Str(<<>>), sourceLanguage |-> "", targetLanguage |-> "",
          autoDetect |-> FALSE]

TranslateReplies ==
    { Success(<<Run("b", 4)>>), Success(<<Run(" ", 1), Run("b", 4), Run(" ", 2)>>),
      Success(<<>>), Success(<<Run(" ", 2)>>) } \cup ProviderFailures

LongAnswer == "The language of this text appears to be French, I think"

DetectReplies ==
    { DetectSuccess(Content(0, "French", FALSE)),
      DetectSuccess(Content(1, "English", FALSE)),
      DetectSuccess(Content(0, "Spanish", FALSE)),
      DetectSuccess(Content(0, Unknown, FALSE)),
      DetectSuccess(Content(0, "", FALSE)),
      DetectSuccess(Content(2, "", FALSE)),
      DetectSuccess(Content(0, "French", TRUE)),
      DetectSuccess(Content(0, LongAnswer, FALSE)),
      DetectFailure(Err(RawRate, 429, ""), "rate"),
      DetectFailure(Err(RawTimeout, 0, ""), "timeout") }

----------------------------------------------------------------------------
(* POST /translate *)

Undefined == "undefined"

NoResp ==
    [status |-> 0, error |-> "", code |-> "", success |-> FALSE, translatedText |-> <<>>,
     sourceLanguage |-> "", targetLanguage |-> "", confidence |-> 0, alternatives |-> <<>>,
     detectedLanguage |-> Undefined, health |-> "", configured |-> FALSE]

ErrorResponse(st, msg, cd) == [NoResp EXCEPT !.status = st, !.error = msg, !.code = cd]

MsgInvalidJson == "Invalid JSON in request body. Please check your request format."

MsgTextRequired == "Text is required and must be a string"

MsgNotConfigured == "Translation service is not configured. Please set up the OpenAI API key in your environment variables."

MsgInvalidKeyFormat == "Invalid OpenAI API key format. Please check your API key."

MsgUnexpected == "An unexpected error occurred. Please try again."

TextMissing(v) == v.type # "string" \/ Length(v.runs) = 0

\* the checks of POST before the first call into the library; status 0: all passed
PostChecks(b, k) ==
    IF b.json = "invalid" THEN ErrorResponse(400, MsgInvalidJson, "")
    ELSE IF b.json = "null" THEN ErrorResponse(500, MsgUnexpected, "INTERNAL_ERROR")
    ELSE IF TextMissing(b.text) THEN ErrorResponse(400, MsgTextRequired, "")
    ELSE IF b.sourceLanguage = "" \/ b.targetLanguage = ""
         THEN ErrorResponse(400, MsgLanguagesRequired, "")
    ELSE IF ~validateTranslationInput(b.text.runs).isValid
         THEN ErrorResponse(400, validateTranslationInput(b.text.runs).error, "")
    ELSE IF KeyMissing(k) THEN ErrorResponse(500, MsgNotConfigured, "MISSING_API_KEY")
    ELSE IF ~StartsWithSk(k) THEN ErrorResponse(500, MsgInvalidKeyFormat, "INVALID_API_KEY")
    ELSE NoResp

\* the length test left out
WantsDetection_AnyLength(b) == b.autoDetect

WantsDetection(b) == b.autoDetect /\ Length(b.text.runs) > DetectMinLength

\* the source language POST goes on with after detectLanguage returned d
\* the 'Unknown' test left out
ChooseSource_NoUnknownTest(d, sourceLanguage) ==
    IF d # "" /\ d # sourceLanguage THEN d ELSE sourceLanguage

ChooseSource(d, sourceLanguage) ==
    IF d # "" /\ d # Unknown /\ d # sourceLanguage THEN d ELSE sourceLanguage

\* the response POST builds from what translateText returned or threw
PostResponse(o, actual, sourceLanguage) ==
    IF o.kind = "return"
    THEN [NoResp EXCEPT !.status = 200, !.success = TRUE,
                        !.translatedText = o.translatedText,
                        !.sourceLanguage = actual,
                        !.targetLanguage = o.targetLanguage,
                        !.confidence = o.confidence,
                        !.alternatives = o.alternatives,
                        !.detectedLanguage = IF actual # sourceLanguage THEN actual ELSE Undefined]
    ELSE ErrorResponse(500, IF o.message # "" THEN o.message ELSE MsgTranslationFailed,
                       "TRANSLATION_ERROR")

\* the call of translateText(t, s, g) by entry point e, after the requests in calls
CallTranslateText(e, b, t, s, g, calls) ==
    LET o == translateTextSync(t, s, g, apiKey) IN
    /\ translateSource' = s
    /\ IF o.kind = "request"
       THEN /\ pc' = "translate"
            /\ apiCalls' = Append(calls, "translate")
            /\ sent' = Append(sent, "translate")
            /\ outcome' = NoOutcome
            /\ response' = NoResp
       ELSE /\ pc' = "done"
            /\ apiCalls' = calls
            /\ sent' = sent
            /\ outcome' = o
            /\ response' = IF e = "POST" THEN PostResponse(o, s, b.sourceLanguage) ELSE NoResp

Idle == pc = "idle"

\* new OpenAI({maxRetries: 2}): the client sends a request again, up to maxRetries times,
\* when no response arrived (connection error, timeout) or the status is 408, 409, 429
\* or 5xx
MaxRetries == 2

\* every failure taken as final
Retryable_Never(e) == FALSE

Retryable(e) == e.status = 0 \/ e.status \in {408, 409, 429} \/ e.status >= 500

Requests(kind) == Cardinality({n \in 1..Len(sent) : sent[n] = kind})

\* the answer r ends the create call in flight: the client does not send again
Settled(r) == r.ok \/ ~Retryable(r.error) \/ Requests(pc) > MaxRetries

\* the client sends the first request of the handler again
Retry_First(r) ==
    /\ pc \in {"detect", "translate", "test", "context", "alternatives"}
    /\ ~Settled(r)
    /\ sent' = Append(sent, Head(sent))
    /\ UNCHANGED <<apiKey, pc, entry, req, actualSourceLang, detected, translateSource, outcome,
                   response, apiCalls, lastFailure, storeVars, frontVars>>

\* the client sends the request of the create call in flight again
Retry(r) ==
    /\ pc \in {"detect", "translate", "test", "context", "alternatives"}
    /\ ~Settled(r)
    /\ sent' = Append(sent, pc)
    /\ UNCHANGED <<apiKey, pc, entry, req, actualSourceLang, detected, translateSource, outcome,
                   response, apiCalls, lastFailure, storeVars, frontVars>>

POST(b) ==
    /\ Idle
    /\ entry' = "POST"
    /\ req' = b
    /\ UNCHANGED <<apiKey, lastFailure, storeVars, frontVars>>
    /\ IF PostChecks(b, apiKey).status # 0
       THEN /\ pc' = "done"
            /\ response' = PostChecks(b, apiKey)
            /\ UNCHANGED <<actualSourceLang, detected, translateSource, outcome, apiCalls,
                           sent>>
       ELSE IF WantsDetection(b) /\ detectLanguageSync(b.text.runs, apiKey) = ""
       THEN /\ pc' = "detect"
            /\ apiCalls' = <<"detect">>
            /\ sent' = <<"detect">>
            /\ actualSourceLang' = b.sourceLanguage
            /\ UNCHANGED <<detected, translateSource, outcome, response>>
       ELSE /\ detected' = IF WantsDetection(b) THEN detectLanguageSync(b.text.runs, apiKey)
                           ELSE detected
            /\ actualSourceLang' = IF WantsDetection(b)
                                   THEN ChooseSource(detectLanguageSync(b.text.runs, apiKey),
                                                     b.sourceLanguage)
                                   ELSE b.sourceLanguage
            /\ CallTranslateText("POST", b, b.text.runs, actualSourceLang', b.targetLanguage,
                                 <<>>)

\* the completion API answers the detection request
DetectReply(r) ==
    /\ pc = "detect"
    /\ Settled(r)
    /\ detected' = detectLanguageReply(r)
    /\ actualSourceLang' = ChooseSource(detected', req.sourceLanguage)
    /\ CallTranslateText(entry, req, req.text.runs, actualSourceLang', req.targetLanguage,
                         apiCalls)
    /\ UNCHANGED <<apiKey, entry, req, lastFailure, storeVars, frontVars>>

\* the completion API answers the translation request
TranslateReply(r) ==
    /\ pc = "translate"
    /\ Settled(r)
    /\ pc' = "done"
    /\ outcome' = translateTextReply(translateSource, req.targetLanguage, r)
    /\ response' = IF entry = "POST"
                   THEN PostResponse(outcome', actualSourceLang, req.sourceLanguage)
                   ELSE NoResp
    /\ lastFailure' = lastFailure
    /\ UNCHANGED <<apiKey, entry, req, actualSourceLang, detected, translateSource, apiCalls,
                   sent, storeVars, frontVars>>

\* translateText called by a component (ConversationMode.handleMessage)
translateText(t, s, g) ==
    /\ Idle
    /\ entry' = "translateText"
    /\ req' = [NoReq EXCEPT !.json = "call", !.text = Str(t), !.sourceLanguage = s,
                            !.targetLanguage = g]
    /\ CallTranslateText("translateText", req', t, s, g, <<>>)
    /\ UNCHANGED <<apiKey, actualSourceLang, detected, lastFailure, storeVars, frontVars>>

\* validateTranslationInput called on its own
Validate(t) ==
    /\ Idle
    /\ pc' = "done"
    /\ entry' = "validate"
    /\ req' = [NoReq EXCEPT !.json = "call", !.text = Str(t)]
    /\ outcome' = [NoOutcome EXCEPT
                     !.kind = IF validateTranslationInput(t).isValid THEN "valid" ELSE "invalid",
                     !.message = validateTranslationInput(t).error]
    /\ UNCHANGED <<apiKey, actualSourceLang, detected, translateSource, response, apiCalls, sent, lastFailure, storeVars, frontVars>>

MsgNoTranslationReceived == "No translation received"

\* catch (error) { throw error }
Rethrown(e, c) == [NoOutcome EXCEPT !.kind = "throw", !.message = e.message, !.class = c]

\* an answer to the request for alternatives: its content, trimmed, as lines
AltSuccess(lines) == [ok |-> TRUE, content |-> lines, error |-> NoErr, class |-> "none"]

\* .filter(alt => alt.trim().length > 0)
RECURSIVE NonBlankLines(_)
NonBlankLines(lines) ==
    IF lines = <<>> THEN <<>>
    ELSE IF Length(Trim(Head(lines))) > 0 THEN <<Head(lines)>> \o NonBlankLines(Tail(lines))
    ELSE NonBlankLines(Tail(lines))

\* .slice(0, 2)
Slice2(q) == SubSeq(q, 1, IF Len(q) < 2 THEN Len(q) ELSE 2)

\* translateWithContext, up to its first await
translateWithContext(t, s, g) ==
    /\ Idle
    /\ entry' = "translateWithContext"
    /\ req' = [NoReq EXCEPT !.json = "call", !.text = Str(t), !.sourceLanguage = s,
                            !.targetLanguage = g]
    /\ translateSource' = s
    /\ response' = NoResp
    /\ IF getOpenAIClient(apiKey).ok
       THEN /\ pc' = "context"
            /\ apiCalls' = <<"context">>
            /\ sent' = <<"context">>
            /\ outcome' = NoOutcome
       ELSE /\ pc' = "done"
            /\ outcome' = Rethrown(getOpenAIClient(apiKey).error, getOpenAIClient(apiKey).class)
            /\ UNCHANGED <<apiCalls, sent>>
    /\ UNCHANGED <<apiKey, actualSourceLang, detected, lastFailure, storeVars, frontVars>>

\* the completion API answers the translation request of translateWithContext
ContextReply(r) ==
    /\ pc = "context"
    /\ Settled(r)
    /\ IF ~r.ok
       THEN /\ pc' = "done"
            /\ outcome' = Rethrown(r.error, r.class)
            /\ UNCHANGED <<apiCalls, sent>>
       ELSE IF Length(Trim(r.content)) = 0
       THEN /\ pc' = "done"
            /\ outcome' = Rethrown(Err(MsgNoTranslationReceived, 0, ""), "generic")
            /\ UNCHANGED <<apiCalls, sent>>
       ELSE /\ pc' = "alternatives"
            /\ outcome' = [Returned(Trim(r.content), translateSource, req.targetLanguage,
                                    ConfidenceProvider) EXCEPT !.kind = "request"]
            /\ apiCalls' = Append(apiCalls, "alternatives")
            /\ sent' = Append(sent, "alternatives")
    /\ UNCHANGED <<apiKey, entry, req, actualSourceLang, detected, translateSource, response,
                   lastFailure, storeVars, frontVars>>

\* the completion API answers the request for alternatives
AlternativesReply(a) ==
    /\ pc = "alternatives"
    /\ Settled(a)
    /\ pc' = "done"
    /\ outcome' = [outcome EXCEPT !.kind = "return",
                                  !.alternatives = IF a.ok THEN Slice2(NonBlankLines(a.content))
                                                   ELSE <<>>]
    /\ UNCHANGED <<apiKey, entry, req, actualSourceLang, detected, translateSource, response,
                   apiCalls, sent, lastFailure, storeVars, frontVars>>


----------------------------------------------------------------------------
(* GET /translate: the health check, in its two definitions *)

HealthResponse(st, h, c) == [NoResp EXCEPT !.status = st, !.health = h, !.configured = c]

hasApiKey(k) == ~KeyMissing(k)

isValidApiKey(k) == hasApiKey(k) /\ StartsWithSk(k)

\* route.ts lines 108-129
HealthBasic(k) == HealthResponse(200, "ok", hasApiKey(k))

GET_108 ==
    /\ Idle
    /\ pc' = "done"
    /\ entry' = "GET_108"
    /\ req' = NoReq
    /\ response' = HealthBasic(apiKey)
    /\ UNCHANGED <<apiKey, actualSourceLang, detected, translateSource, outcome, apiCalls, sent, lastFailure, storeVars, frontVars>>

\* route.ts lines 261-320, up to the call of testTranslationAPI; status 0: the test runs
HealthChecks(k) ==
    IF ~hasApiKey(k) THEN HealthResponse(200, "error", FALSE)
    ELSE IF ~isValidApiKey(k) THEN HealthResponse(200, "error", FALSE)
    ELSE NoResp

\* testTranslationAPI from the provider's answer on
testTranslationAPI(r) == r.ok /\ Length(Trim(r.content)) # 0

HealthTested(r) ==
    IF testTranslationAPI(r) THEN HealthResponse(200, "ok", TRUE)
    ELSE HealthResponse(500, "error", FALSE)

GET_261 ==
    /\ Idle
    /\ entry' = "GET_261"
    /\ req' = NoReq
    /\ IF HealthChecks(apiKey).status # 0
       THEN /\ pc' = "done"
            /\ response' = HealthChecks(apiKey)
            /\ apiCalls' = apiCalls
            /\ sent' = sent
       ELSE /\ pc' = "test"
            /\ response' = response
            /\ apiCalls' = <<"test">>
            /\ sent' = <<"test">>
    /\ UNCHANGED <<apiKey, actualSourceLang, detected, translateSource, outcome, lastFailure, storeVars, frontVars>>

\* the completion API answers the test request
HealthReply(r) ==
    /\ pc = "test"
    /\ Settled(r)
    /\ pc' = "done"
    /\ response' = HealthTested(r)
    /\ UNCHANGED <<apiKey, entry, req, actualSourceLang, detected, translateSource, outcome,
                   apiCalls, sent, lastFailure, storeVars, frontVars>>

----------------------------------------------------------------------------
(* Between two requests *)

NoFailure == [class |-> "none", message |-> ""]

Cleared ==
    /\ pc' = "idle"
    /\ entry' = "none"
    /\ req' = NoReq
    /\ actualSourceLang' = ""
    /\ detected' = ""
    /\ translateSource' = ""
    /\ outcome' = NoOutcome
    /\ response' = NoResp
    /\ apiCalls' = <<>>
    /\ sent' = <<>>

\* the handler has answered; the next request starts from fresh locals
Reset ==
    /\ pc = "done"
    /\ Cleared
    /\ UNCHANGED <<apiKey, lastFailure, storeVars, frontVars>>

\* as Reset, keeping the failure translateText surfaced to compare the next one with
Remember ==
    /\ pc = "done"
    /\ Cleared
    /\ lastFailure' = IF outcome.kind = "throw"
                      THEN [class |-> outcome.class, message |-> outcome.message]
                      ELSE lastFailure
    /\ UNCHANGED <<apiKey, storeVars, frontVars>>

\* the process is restarted with another environment
Configure(k) ==
    /\ Idle
    /\ k # apiKey
    /\ apiKey' = k
    /\ UNCHANGED <<pc, entry, req, actualSourceLang, detected, translateSource, outcome,
                   response, apiCalls, sent, lastFailure, storeVars, frontVars>>

InitApi ==
    /\ pc = "idle"
    /\ entry = "none"
    /\ req = NoReq
    /\ actualSourceLang = ""
    /\ detected = ""
    /\ translateSource = ""
    /\ outcome = NoOutcome
    /\ response = NoResp
    /\ apiCalls = <<>>
    /\ sent = <<>>
    /\ lastFailure = NoFailure


----------------------------------------------------------------------------
(* The object store and the persistence adapter *)

MaxRecords == 3

MaxShown == 2

Users == {"u1", "u2"}

\* created_at values: an ISO timestamp, here its day and its second of the day
Timestamps == {[day |-> 1, sec |-> 10], [day |-> 1, sec |-> 20], [day |-> 2, sec |-> 5]}

getTime(ts) == ts.day * 86400 + ts.sec

Record(i, u, ts) == [id |-> i, user_id |-> u, created_at |-> ts]

IdsOf(st) == {r.id : r \in st}

\* query { type: 'translations', 'metadata.user_id': userId }: "" is no filter
Matching(st, userId) == {r \in st : userId = "" \/ r.user_id = userId}

Perms(S) == {f \in [1..Cardinality(S) -> S] : \A i, j \in 1..Cardinality(S) : f[i] = f[j] => i = j}

Answer(st, objs) == [status |-> st, objects |-> objs]

\* what cosmic.objects.find may answer: the matching objects in any order, 'not
\* found' when there are none, or a failure of the store
FindAnswers(st, userId) ==
    {Answer(200, p) : p \in Perms(Matching(st, userId))}
    \cup (IF Matching(st, userId) = {} THEN {Answer(404, <<>>)} ELSE {})
    \cup {Answer(500, <<>>)}

\* what cosmic.objects.deleteOne may answer: done, 'not found' for an id the store
\* does not hold, or a failure of the store
DeleteAnswers(st, i) ==
    (IF i \in IdsOf(st) THEN {Answer(200, <<>>)} ELSE {Answer(404, <<>>)})
    \cup {Answer(500, <<>>)}

\* 'not found' taken for a failure
hasStatus404_Never(a) == FALSE

hasStatus404(a) == a.status = 404

\* the comparator handed to sort: dateB - dateA
\* the comparator the other way round: dateA - dateB
compare_Ascending(a, b) == getTime(a.created_at) - getTime(b.created_at)

compare(a, b) == getTime(b.created_at) - getTime(a.created_at)

RECURSIVE Insert(_, _)
Insert(x, sorted) ==
    IF sorted = <<>> THEN <<x>>
    ELSE IF compare(Head(sorted), x) <= 0 THEN <<Head(sorted)>> \o Insert(x, Tail(sorted))
    ELSE <<x>> \o sorted

RECURSIVE SortFrom(_, _)
SortFrom(rest, sorted) ==
    IF rest = <<>> THEN sorted ELSE SortFrom(Tail(rest), Insert(Head(rest), sorted))

\* Array.prototype.sort with compare: stable
sort(objs) == SortFrom(objs, <<>>)

NoResult == [kind |-> "none", value |-> <<>>, message |-> ""]

Return(v) == [NoResult EXCEPT !.kind = "return", !.value = v]

Throw(m) == [NoResult EXCEPT !.kind = "throw", !.message = m]

MsgFetchHistory == "Failed to fetch translation history"

MsgDelete == "Failed to delete translation"

MsgSave == "Failed to save translation"

\* getTranslationHistory from the store's answer on
getTranslationHistoryReply(a) ==
    IF a.status = 200 THEN Return(sort(a.objects))
    ELSE IF hasStatus404(a) THEN Return(<<>>)
    ELSE Throw(MsgFetchHistory)

\* deleteTranslation from the store's answer on
deleteTranslationReply(a) ==
    IF a.status = 200 THEN Return(<<>>) ELSE Throw(MsgDelete)

\* saveTranslation from the store's answer on
saveTranslationReply(a) ==
    IF a.status = 200 THEN Return(a.objects) ELSE Throw(MsgSave)

NoHResp == [status |-> 0, translations |-> <<>>, error |-> "", success |-> FALSE]

MsgIdRequired == "Translation ID is required"

\* GET /history from the adapter's result on
HistoryGetResponse(r) ==
    IF r.kind = "return" THEN [NoHResp EXCEPT !.status = 200, !.translations = r.value]
    ELSE [NoHResp EXCEPT !.status = 500, !.error = MsgFetchHistory]

\* DELETE /history from the adapter's result on
HistoryDeleteResponse(r) ==
    IF r.kind = "return" THEN [NoHResp EXCEPT !.status = 200, !.success = TRUE]
    ELSE [NoHResp EXCEPT !.status = 500, !.error = MsgDelete]

NoOp == [caller |-> "none", fn |-> "none", userId |-> "", id |-> 0, state |-> "idle"]

StoreIdle == op.state = "idle"

Call(c, f, u, i) == [caller |-> c, fn |-> f, userId |-> u, id |-> i, state |-> "wait"]

\* GET /history?userId=
HistoryGET(userId) ==
    /\ StoreIdle
    /\ op' = Call("GET", "find", userId, 0)
    /\ UNCHANGED <<store, found, result, hresponse, translations, isDeleting, toast, apiVars, frontVars>>

\* getTranslationHistory called by a component
getTranslationHistory(userId) ==
    /\ StoreIdle
    /\ op' = Call("direct", "find", userId, 0)
    /\ UNCHANGED <<store, found, result, hresponse, translations, isDeleting, toast, apiVars, frontVars>>

\* DELETE /history?id= ; id 0 stands for a request without the parameter
HistoryDELETE(i) ==
    /\ StoreIdle
    /\ IF i = 0
       THEN /\ op' = [Call("DELETE", "none", "", 0) EXCEPT !.state = "done"]
            /\ hresponse' = [NoHResp EXCEPT !.status = 400, !.error = MsgIdRequired]
       ELSE /\ op' = Call("DELETE", "delete", "", i)
            /\ hresponse' = hresponse
    /\ UNCHANGED <<store, found, result, translations, isDeleting, toast, apiVars, frontVars>>

\* deleteTranslation called by a component
deleteTranslation(i) ==
    /\ StoreIdle
    /\ op' = Call("direct", "delete", "", i)
    /\ UNCHANGED <<store, found, result, hresponse, translations, isDeleting, toast, apiVars, frontVars>>

\* saveTranslation called by a component, the store choosing the id
saveTranslation(u) ==
    /\ StoreIdle
    /\ op' = Call("direct", "insert", u, 0)
    /\ UNCHANGED <<store, found, result, hresponse, translations, isDeleting, toast, apiVars, frontVars>>


\* page.tsx loadData, up to its first await: the languages are fetched when the page
\* mounts, the history list after them
loadData ==
    /\ StoreIdle
    /\ isLoading' = TRUE
    /\ op' = Call("loadData", "languages", "", 0)
    /\ UNCHANGED <<store, found, result, hresponse, translations, isDeleting, toast, apiVars,
                   uiVars, speechVars, convVars, ctlVars, languageStore, lresponse, languages>>

Shown == {translations[n].id : n \in 1..Len(translations)}

\* TranslationHistory.handleDelete on a displayed record; confirmed: the user's answer
handleDelete(i, confirmed) ==
    /\ StoreIdle
    /\ i \in Shown
    /\ isDeleting # i
    /\ IF confirmed
       THEN /\ isDeleting' = i
            /\ op' = Call("handleDelete", "delete", "", i)
       ELSE UNCHANGED <<isDeleting, op>>
    /\ UNCHANGED <<store, found, result, hresponse, translations, toast, apiVars, frontVars>>

\* handleTranslationDelete: prev.filter(t => t.id !== deletedId)
RECURSIVE handleTranslationDelete(_, _)
handleTranslationDelete(prev, deletedId) ==
    IF prev = <<>> THEN <<>>
    ELSE IF Head(prev).id # deletedId
         THEN <<Head(prev)>> \o handleTranslationDelete(Tail(prev), deletedId)
    ELSE handleTranslationDelete(Tail(prev), deletedId)

ToastDeleted == "Translation deleted"

\* the store answers a find with a
FindAnswered(a) ==
    /\ op.state = "wait"
    /\ op.fn = "find"
    /\ op' = [op EXCEPT !.state = "done"]
    /\ found' = a
    /\ result' = getTranslationHistoryReply(a)
    /\ hresponse' = IF op.caller = "GET" THEN HistoryGetResponse(result') ELSE hresponse
    /\ translations' = IF op.caller = "loadData" /\ result'.kind = "return"
                       THEN result'.value ELSE translations
    /\ isLoading' = IF op.caller = "loadData" THEN FALSE ELSE isLoading
    /\ UNCHANGED <<store, isDeleting, toast, apiVars, uiVars, speechVars, convVars, ctlVars,
                   languageStore, lresponse, languages>>

\* onDelete called whatever deleteTranslation answered
DeleteAnswered_Optimistic(a) ==
    /\ op.state = "wait"
    /\ op.fn = "delete"
    /\ op' = [op EXCEPT !.state = "done"]
    /\ found' = a
    /\ store' = IF a.status = 200 THEN {r \in store : r.id # op.id} ELSE store
    /\ result' = deleteTranslationReply(a)
    /\ hresponse' = IF op.caller = "DELETE" THEN HistoryDeleteResponse(result') ELSE hresponse
    /\ IF op.caller = "handleDelete"
       THEN /\ translations' = handleTranslationDelete(translations, op.id)
            /\ toast' = IF result'.kind = "return" THEN ToastDeleted ELSE MsgDelete
            /\ isDeleting' = 0
       ELSE UNCHANGED <<translations, toast, isDeleting>>
    /\ UNCHANGED <<apiVars, frontVars>>

\* the store answers a deleteOne with a
DeleteAnswered(a) ==
    /\ op.state = "wait"
    /\ op.fn = "delete"
    /\ op' = [op EXCEPT !.state = "done"]
    /\ found' = a
    /\ store' = IF a.status = 200 THEN {r \in store : r.id # op.id} ELSE store
    /\ result' = deleteTranslationReply(a)
    /\ hresponse' = IF op.caller = "DELETE" THEN HistoryDeleteResponse(result') ELSE hresponse
    /\ IF op.caller = "handleDelete"
       THEN /\ translations' = IF result'.kind = "return"
                               THEN handleTranslationDelete(translations, op.id)
                               ELSE translations
            /\ toast' = IF result'.kind = "return" THEN ToastDeleted ELSE MsgDelete
            /\ isDeleting' = 0
       ELSE UNCHANGED <<translations, toast, isDeleting>>
    /\ UNCHANGED <<apiVars, frontVars>>

FindReply == \E a \in FindAnswers(store, op.userId) : FindAnswered(a)

DeleteReply == \E a \in DeleteAnswers(store, op.id) : DeleteAnswered(a)

\* the store answers an insertOne: the new object, or a failure
InsertReply(i, ts, ok) ==
    /\ op.state = "wait"
    /\ op.fn = "insert"
    /\ i \notin IdsOf(store)
    /\ op' = [op EXCEPT !.state = "done"]
    /\ found' = IF ok THEN Answer(200, <<Record(i, op.userId, ts)>>) ELSE Answer(500, <<>>)
    /\ store' = IF ok THEN store \cup {Record(i, op.userId, ts)} ELSE store
    /\ result' = saveTranslationReply(found')
    /\ UNCHANGED <<hresponse, translations, isDeleting, toast, apiVars, frontVars>>

\* a language object: props id, title
Language(i, t) == [id |-> i, title |-> t]

\* the fallback list of loadData
DefaultLanguages ==
    << Language(1, "English"), Language(2, "Spanish"), Language(3, "French"),
       Language(4, "German"), Language(5, "Chinese"), Language(6, "Japanese") >>

MsgFetchLanguages == "Failed to fetch languages"

\* what cosmic.objects.find({type: 'languages'}) may answer
LanguageAnswers(ls) ==
    {Answer(200, p) : p \in Perms(ls)}
    \cup (IF ls = {} THEN {Answer(404, <<>>)} ELSE {})
    \cup {Answer(500, <<>>)}

\* getLanguages from the store's answer on
getLanguagesReply(a) ==
    IF a.status = 200 THEN Return(a.objects)
    ELSE IF hasStatus404(a) THEN Return(<<>>)
    ELSE Throw(MsgFetchLanguages)

NoLResp == [status |-> 0, languages |-> <<>>, error |-> ""]

\* GET /languages from the adapter's result on
LanguagesGetResponse(r) ==
    IF r.kind = "return" THEN [NoLResp EXCEPT !.status = 200, !.languages = r.value]
    ELSE [NoLResp EXCEPT !.status = 500, !.error = MsgFetchLanguages]

\* loadData: fetchedLanguages.length > 0 ? fetchedLanguages : [...]
defaultLanguages(fetchedLanguages) ==
    IF Len(fetchedLanguages) > 0 THEN fetchedLanguages ELSE DefaultLanguages

\* GET /languages
LanguagesGET ==
    /\ StoreIdle
    /\ op' = Call("GET", "languages", "", 0)
    /\ UNCHANGED <<store, found, result, hresponse, translations, isDeleting, toast, apiVars,
                   frontVars>>

\* the store answers the find of getLanguages with a; loadData goes on to fetch the
\* history, or to its catch and finally when getLanguages threw
LanguagesAnswered(a) ==
    /\ op.state = "wait"
    /\ op.fn = "languages"
    /\ found' = a
    /\ result' = getLanguagesReply(a)
    /\ IF op.caller = "GET"
       THEN /\ lresponse' = LanguagesGetResponse(result')
            /\ op' = [op EXCEPT !.state = "done"]
            /\ UNCHANGED <<languages, isLoading>>
       ELSE IF result'.kind = "return"
       THEN /\ languages' = defaultLanguages(result'.value)
            /\ op' = Call("loadData", "find", "", 0)
            /\ UNCHANGED <<lresponse, isLoading>>
       ELSE /\ op' = [op EXCEPT !.state = "done"]
            /\ isLoading' = FALSE
            /\ UNCHANGED <<lresponse, languages>>
    /\ UNCHANGED <<store, hresponse, translations, isDeleting, toast, apiVars, uiVars,
                   speechVars, convVars, ctlVars, languageStore>>

LanguagesReply == \E a \in LanguageAnswers(languageStore) : LanguagesAnswered(a)

NoAnswer == Answer(0, <<>>)

\* the caller has its answer; the next operation starts from fresh locals
StoreReset ==
    /\ op.state = "done"
    /\ op' = NoOp
    /\ found' = NoAnswer
    /\ result' = NoResult
    /\ hresponse' = NoHResp
    /\ lresponse' = NoLResp
    /\ toast' = ""
    /\ UNCHANGED <<store, translations, isDeleting, apiVars, uiVars, speechVars, convVars, ctlVars,
                   languageStore, languages, isLoading>>

InitPage ==
    /\ lresponse = NoLResp
    /\ languages = <<>>
    /\ isLoading = TRUE

InitStore ==
    /\ store = {}
    /\ op = NoOp
    /\ found = NoAnswer
    /\ result = NoResult
    /\ hresponse = NoHResp
    /\ translations = <<>>
    /\ isDeleting = 0
    /\ toast = ""

----------------------------------------------------------------------------
(* TranslationInterface: the debounced translation of the source text *)

MaxStale == 1

MaxFlows == 2

TargetLang == "Spanish"

ToastCompleted == "Translation completed"

ToastFailed == "Translation failed. Please try again."

ToastInvalid == "Invalid input"

NoTimer == [pending |-> FALSE, text |-> <<>>, source |-> "", target |-> "", detect |-> FALSE]

\* setTimeout(() => func(...args), wait); detect: the autoDetect the closure captured
Timer(t, s, g, d) == [pending |-> TRUE, text |-> t, source |-> s, target |-> g, detect |-> d]

\* the function debounce returns: clearTimeout(timeout); timeout = setTimeout(...)
debounce(tm, t, s, g, d) == Timer(t, s, g, d)

Flow(at, tm, actual) ==
    [pc |-> at, text |-> tm.text, source |-> actual, target |-> tm.target]

RemoveAt(q, i) == SubSeq(q, 1, i - 1) \o SubSeq(q, i + 1, Len(q))

\* setTranslatedText, setConfidence, setAlternatives
Display(o) ==
    /\ translatedText' = o.translatedText
    /\ confidence' = o.confidence
    /\ alternatives' = o.alternatives

\* the catch block cleared the translation
Caught_Clearing ==
    /\ notice' = ToastFailed
    /\ translatedText' = <<>>
    /\ confidence' = 0
    /\ alternatives' = <<>>

\* catch: toast.error('Translation failed. Please try again.')
Caught ==
    /\ notice' = ToastFailed
    /\ UNCHANGED <<translatedText, confidence, alternatives>>

\* the callback from the result of translateText on; rest: the other suspended runs
Translated(o, f, rest) ==
    IF o.kind = "return"
    THEN /\ Display(o)
         /\ flows' = Append(rest, [f EXCEPT !.pc = "save"])
         /\ isTranslating' = TRUE
         /\ notice' = notice
    ELSE /\ Caught
         /\ flows' = rest
         /\ isTranslating' = FALSE

\* the callback from the call of translateText on
Translate(f, rest) ==
    IF translateTextSync(f.text, f.source, f.target, apiKey).kind = "request"
    THEN /\ flows' = Append(rest, [f EXCEPT !.pc = "translate"])
         /\ isTranslating' = TRUE
         /\ UNCHANGED <<translatedText, confidence, alternatives, notice>>
    ELSE Translated(translateTextSync(f.text, f.source, f.target, apiKey), f, rest)

\* detectedLang && detectedLang !== 'Unknown'
Usable(d) == d # "" /\ d # Unknown

\* the body of the debounced callback, run when the timer tm fires
Callback(tm) ==
    IF Length(Trim(tm.text)) = 0
    THEN UNCHANGED <<translatedText, confidence, alternatives, sourceLang, isTranslating,
                     flows, notice>>
    ELSE IF ~validateTranslationInput(tm.text).isValid
    THEN /\ notice' = IF validateTranslationInput(tm.text).error # ""
                       THEN validateTranslationInput(tm.text).error ELSE ToastInvalid
         /\ UNCHANGED <<translatedText, confidence, alternatives, sourceLang, isTranslating,
                        flows>>
    ELSE IF tm.detect /\ Length(tm.text) > DetectMinLength
            /\ detectLanguageSync(tm.text, apiKey) = ""
    THEN /\ flows' = Append(flows, Flow("detect", tm, tm.source))
         /\ isTranslating' = TRUE
         /\ UNCHANGED <<translatedText, confidence, alternatives, sourceLang, notice>>
    ELSE /\ sourceLang' = sourceLang
         /\ Translate(Flow("translate", tm, tm.source), flows)

\* what handleSourceTextChange does to the state of the component
SourceTextChanged(t) ==
    /\ sourceText' = t
    /\ IF Length(Trim(t)) # 0
       THEN /\ timeout' = debounce(timeout, t, sourceLang, targetLang, autoDetect)
            /\ UNCHANGED <<translatedText, confidence, alternatives>>
       ELSE /\ translatedText' = <<>>
            /\ alternatives' = <<>>
            /\ confidence' = 0
            /\ timeout' = timeout
    /\ UNCHANGED <<autoDetect, sourceLang, isTranslating, stale, flows, notice>>

handleSourceTextChange(t) == SourceTextChanged(t) /\ UNCHANGED notUi

swapLanguages ==
    /\ sourceLang' = targetLang
    /\ targetLang' = sourceLang
    /\ sourceText' = translatedText
    /\ translatedText' = sourceText
    /\ timeout' = IF Length(Trim(translatedText)) # 0
                  THEN debounce(timeout, translatedText, targetLang, sourceLang, autoDetect)
                  ELSE timeout
    /\ UNCHANGED <<confidence, alternatives, autoDetect, isTranslating, stale, flows, notice,
                   TI_isListening, cmVars, apiVars, storeVars,
                   speechVars, pageVars, convVars>>

clearText ==
    /\ sourceText' = <<>>
    /\ translatedText' = <<>>
    /\ alternatives' = <<>>
    /\ confidence' = 0
    /\ UNCHANGED <<autoDetect, sourceLang, isTranslating, timeout, stale, flows, notice,
                   notUi>>

\* the checkbox: useCallback(..., [autoDetect]) hands out a new debounced closure, and
\* the timer of the previous one stays pending
setAutoDetect ==
    /\ timeout.pending => Cardinality(stale \cup {timeout}) <= MaxStale
    /\ autoDetect' = ~autoDetect
    /\ stale' = IF timeout.pending THEN stale \cup {timeout} ELSE stale
    /\ timeout' = NoTimer
    /\ UNCHANGED <<sourceText, translatedText, confidence, alternatives, sourceLang,
                   isTranslating, flows, notice, notUi>>

\* the debounce interval of the current closure's timer has elapsed
Fire ==
    /\ timeout.pending
    /\ Len(flows) < MaxFlows
    /\ timeout' = NoTimer
    /\ Callback(timeout)
    /\ UNCHANGED <<sourceText, autoDetect, stale, notUi>>

\* the debounce interval of a timer of an earlier closure has elapsed
FiredStale(tm) ==
    /\ tm \in stale
    /\ Len(flows) < MaxFlows
    /\ stale' = stale \ {tm}
    /\ Callback(tm)
    /\ UNCHANGED <<sourceText, autoDetect, timeout, notUi>>

FireStale == \E tm \in stale : FiredStale(tm)

\* await detectLanguage(text) resumes
FlowDetected(i, r) ==
    /\ i \in 1..Len(flows)
    /\ flows[i].pc = "detect"
    /\ sourceLang' = IF Usable(detectLanguageReply(r)) THEN detectLanguageReply(r)
                     ELSE sourceLang
    /\ Translate([flows[i] EXCEPT !.source = IF Usable(detectLanguageReply(r))
                                             THEN detectLanguageReply(r) ELSE @],
                 RemoveAt(flows, i))
    /\ UNCHANGED <<sourceText, autoDetect, timeout, stale, notUi>>

\* await translateText(text, actualSourceLang, target) resumes
FlowTranslated(i, r) ==
    /\ i \in 1..Len(flows)
    /\ flows[i].pc = "translate"
    /\ Translated(translateTextReply(flows[i].source, flows[i].target, r), flows[i],
                  RemoveAt(flows, i))
    /\ UNCHANGED <<sourceText, autoDetect, sourceLang, timeout, stale, notUi>>

\* await saveTranslation(...) resumes with the store's answer a to insertOne
FlowSaved(i, a) ==
    /\ i \in 1..Len(flows)
    /\ flows[i].pc = "save"
    /\ result' = saveTranslationReply(a)
    /\ flows' = RemoveAt(flows, i)
    /\ isTranslating' = FALSE
    /\ IF saveTranslationReply(a).kind = "return"
       THEN /\ notice' = ToastCompleted
            /\ UNCHANGED <<translatedText, confidence, alternatives>>
       ELSE Caught
    /\ UNCHANGED <<sourceText, autoDetect, sourceLang, timeout, stale, apiVars, store, op,
                   found, hresponse, translations, isDeleting, toast, speechVars,
                   pageVars, convVars, ctlVars>>

InitUi ==
    /\ sourceText = <<>>
    /\ translatedText = <<>>
    /\ confidence = 0
    /\ alternatives = <<>>
    /\ autoDetect = FALSE
    /\ sourceLang = "English"
    /\ isTranslating = FALSE
    /\ timeout = NoTimer
    /\ stale = {}
    /\ flows = <<>>
    /\ notice = ""
    /\ targetLang = TargetLang
    /\ TI_isListening = FALSE

----------------------------------------------------------------------------
(* The speech bridge: capability flags and the SpeechRecognition class *)

MaxCalls == 3

MaxResults == 3

\* window.SpeechRecognition || webkitSpeechRecognition, window.speechSynthesis,
\* window.SpeechSynthesisUtterance
Features == [recognition : BOOLEAN, synthesis : BOOLEAN, utterance : BOOLEAN]

AllFeatures == [recognition |-> TRUE, synthesis |-> TRUE, utterance |-> TRUE]

getSpeechSupport(w) ==
    [recognition |-> w.recognition, synthesis |-> w.synthesis /\ w.utterance]

\* the constructors return normally (they throw otherwise)
RecognitionConstructs(w) == w.recognition

SynthesisConstructs(w) == w.synthesis

NoRefs == [recognition |-> FALSE, synthesis |-> FALSE]

\* this.recognition.continuous = true
Continuous == TRUE

MsgFailedToStart == "Failed to start speech recognition"

ErrorCodes == {"network", "not-allowed", "no-speech", "audio-capture", "aborted"}

ErrorMessage(code) ==
    CASE code = "network" -> "Network error during speech recognition"
      [] code = "not-allowed" -> "Microphone access denied. Please allow microphone access."
      [] code = "no-speech" -> "No speech detected. Please try again."
      [] code = "audio-capture" -> "No microphone found. Please check your microphone."
      [] OTHER -> "Speech recognition error: other"

\* recognition.stop(): a started recogniser winds down, and reports onend later
EngineStop(e) == IF e \in {"starting", "active"} THEN "stopping" ELSE e

\* recognition.start() is accepted; it throws InvalidStateError on a recogniser that
\* was started and has not yet reported onend
StartAccepted(e) == e = "idle"

ResultEvent(ri, rs) == [resultIndex |-> ri, results |-> rs]

Alt(w, f) == [transcript |-> w, isFinal |-> f]

ResultEvents ==
    { ResultEvent(1, <<Alt("a", FALSE)>>),
      ResultEvent(1, <<Alt("a", TRUE)>>),
      ResultEvent(2, <<Alt("a", TRUE), Alt("b", FALSE)>>),
      ResultEvent(2, <<Alt("a", TRUE), Alt("b", TRUE)>>),
      ResultEvent(1, <<Alt("a", TRUE), Alt("b", FALSE)>>) }

\* the onresult handler: what it hands to onResult
OnResult(ev) ==
    [transcript |-> [n \in 1..(Len(ev.results) - ev.resultIndex + 1) |->
                        ev.results[ev.resultIndex + n - 1].transcript],
     isFinal |-> \E n \in ev.resultIndex..Len(ev.results) : ev.results[n].isFinal]

Finals(q) == {n \in 1..Len(q) : q[n].isFinal}

\* useEffect of TranslationInterface and ConversationMode: the objects are built
\* when the capability flag is set
Mount ==
    /\ refs = NoRefs
    /\ uncaught = ""
    /\ refs' = [recognition |-> getSpeechSupport(features).recognition
                                   /\ RecognitionConstructs(features),
                synthesis |-> getSpeechSupport(features).synthesis
                                 /\ SynthesisConstructs(features)]
    /\ uncaught' = IF getSpeechSupport(features).recognition
                      /\ ~RecognitionConstructs(features)
                   THEN "Speech recognition not supported in this browser"
                   ELSE IF getSpeechSupport(features).synthesis
                           /\ ~SynthesisConstructs(features)
                   THEN "Speech synthesis not supported in this browser"
                   ELSE ""
    /\ UNCHANGED <<features, recognizer, isListening, recCalls, notified, reported, spoken,
                   notSpeech>>

\* if (this.isListening) this.stopListening()
WasListening == isListening

\* SpeechRecognition.startListening, the callbacks left to its caller
Listen ==
    /\ refs.recognition
    /\ Len(recCalls) + (IF WasListening THEN 2 ELSE 1) <= MaxCalls
    /\ isListening' = FALSE
    /\ recCalls' = IF WasListening THEN recCalls \o <<"stop", "start">>
                   ELSE Append(recCalls, "start")
    /\ LET engine == IF WasListening THEN EngineStop(recognizer) ELSE recognizer
       IN  IF StartAccepted(engine)
           THEN /\ recognizer' = "starting"
                /\ notified' = <<>>
                /\ reported' = reported
           ELSE /\ recognizer' = engine
                /\ notified' = notified
                /\ reported' = MsgFailedToStart
    /\ UNCHANGED <<features, refs, spoken, uncaught, notVoice>>

\* SpeechRecognition.startListening, its callbacks recorded in notified and reported
startListening == Listen /\ UNCHANGED <<uiVars, convVars, ctlVars>>

\* SpeechRecognition.stopListening on an object that is listening
Halt ==
    /\ refs.recognition
    /\ isListening
    /\ Len(recCalls) < MaxCalls
    /\ recognizer' = EngineStop(recognizer)
    /\ isListening' = FALSE
    /\ recCalls' = Append(recCalls, "stop")
    /\ UNCHANGED <<features, refs, notified, reported, spoken, uncaught, notVoice>>

stopListening == Halt /\ UNCHANGED <<uiVars, convVars, ctlVars>>

\* recognition.onstart
onstart ==
    /\ recognizer = "starting"
    /\ recognizer' = "active"
    /\ isListening' = TRUE
    /\ UNCHANGED <<features, refs, recCalls, notified, reported, spoken, uncaught, notSpeech>>

\* recognition.onresult; after stop() the recogniser hands out at most what it has
\* heard so far, as a final result
Deliver(ev) ==
    /\ recognizer \in {"active", "stopping"}
    /\ recognizer = "stopping" => OnResult(ev).isFinal
    /\ Len(notified) < MaxResults
    /\ ~Continuous => Finals(notified) = {}
    /\ notified' = Append(notified, OnResult(ev))
    /\ recognizer' = IF ~Continuous /\ OnResult(ev).isFinal THEN "stopping" ELSE recognizer
    /\ UNCHANGED <<features, refs, isListening, recCalls, reported, spoken, uncaught,
                   notVoice>>

onresult(ev) == Deliver(ev) /\ UNCHANGED <<uiVars, convVars, ctlVars>>

\* recognition.onerror, the onError callback left to the caller of startListening
Fail(code) ==
    /\ recognizer \in {"starting", "active", "stopping"}
    /\ isListening' = FALSE
    /\ reported' = ErrorMessage(code)
    /\ recognizer' = "ending"
    /\ UNCHANGED <<features, refs, recCalls, notified, spoken, uncaught, notVoice>>

onerror(code) == Fail(code) /\ UNCHANGED <<uiVars, convVars, ctlVars>>

\* recognition.onend
onend ==
    /\ recognizer \in {"active", "stopping", "ending"}
    /\ recognizer' = "idle"
    /\ isListening' = FALSE
    /\ recCalls' = <<>>
    /\ UNCHANGED <<features, refs, notified, reported, spoken, uncaught, notSpeech>>

----------------------------------------------------------------------------
(* The SpeechSynthesis class and the components that use the speech bridge *)

MaxUtterances == 2

\* languageMap[language] || 'en-US'
LocaleOf(language) ==
    CASE language = "English" -> "en-US"
      [] language = "Spanish" -> "es-ES"
      [] language = "French" -> "fr-FR"
      [] language = "German" -> "de-DE"
      [] language = "Italian" -> "it-IT"
      [] language = "Portuguese" -> "pt-PT"
      [] language = "Russian" -> "ru-RU"
      [] language = "Chinese" -> "zh-CN"
      [] language = "Japanese" -> "ja-JP"
      [] language = "Korean" -> "ko-KR"
      [] language = "Arabic" -> "ar-SA"
      [] language = "Hindi" -> "hi-IN"
      [] language = "Dutch" -> "nl-NL"
      [] OTHER -> "en-US"

\* one call of speak: the promise it returned, and where its utterance is in the
\* engine: queued (it will be played), dropped (the engine never reports on it),
\* cancelled (removed by cancel()), none
Utterance(l, p, e) == [lang |-> l, promise |-> p, engine |-> e]

\* what window.speechSynthesis.speak(utterance) does with the utterance
Fates == {"queued", "dropped", "throws"}

\* synth.cancel()
Cancel(q) ==
    [n \in 1..Len(q) |->
        IF q[n].engine \in {"queued", "dropped"} THEN [q[n] EXCEPT !.engine = "cancelled"]
        ELSE q[n]]

\* resolve() / reject(): a promise settles once
Settle(u, how) == [u EXCEPT !.promise = IF @ = "pending" THEN how ELSE @, !.engine = "none"]

ToastNoSynthesis == "Speech synthesis not supported"

ToastNoRecognition == "Speech recognition not supported"

ToastSpeakFailed == "Failed to speak text"

\* SpeechSynthesis.speak, lines 180-239
speak(t, language, fate) ==
    /\ refs.synthesis
    /\ Len(spoken) < MaxUtterances
    /\ spoken' =
          IF Length(Trim(t)) = 0
          THEN Append(spoken, Utterance(LocaleOf(language), "rejected", "none"))
          ELSE IF fate = "throws"
          THEN Append(Cancel(spoken), Utterance(LocaleOf(language), "rejected", "none"))
          ELSE Append(Cancel(spoken), Utterance(LocaleOf(language), "pending", fate))
    /\ UNCHANGED <<features, refs, recognizer, isListening, recCalls, notified, reported,
                   uncaught, notSpeech>>

\* SpeechSynthesis.speak, lines 536-558
speak_536(t, language, fate) ==
    /\ Len(spoken) < MaxUtterances
    /\ spoken' =
          IF ~features.synthesis \/ fate = "throws"
          THEN Append(spoken, Utterance(LocaleOf(language), "rejected", "none"))
          ELSE Append(spoken, Utterance(LocaleOf(language), "pending", fate))
    /\ UNCHANGED <<features, refs, recognizer, isListening, recCalls, notified, reported,
                   uncaught, notSpeech>>

\* SpeechSynthesis.stop
stop ==
    /\ refs.synthesis
    /\ spoken # Cancel(spoken)
    /\ spoken' = Cancel(spoken)
    /\ UNCHANGED <<features, refs, recognizer, isListening, recCalls, notified, reported,
                   uncaught, notSpeech>>

\* utterance.onend
utteranceEnd(i) ==
    /\ i \in 1..Len(spoken)
    /\ spoken[i].engine = "queued"
    /\ spoken' = [spoken EXCEPT ![i] = Settle(@, "resolved")]
    /\ UNCHANGED <<features, refs, recognizer, isListening, recCalls, notified, reported,
                   uncaught, notSpeech>>

\* utterance.onerror
utteranceError(i) ==
    /\ i \in 1..Len(spoken)
    /\ spoken[i].engine \in {"queued", "cancelled"}
    /\ spoken' = [spoken EXCEPT ![i] = Settle(@, "rejected")]
    /\ UNCHANGED <<features, refs, recognizer, isListening, recCalls, notified, reported,
                   uncaught, notSpeech>>

\* the engine plays what it has queued: each queued utterance ends or fails
Playback ==
    \E i \in 1..MaxUtterances :
        (i \in 1..Len(spoken) /\ spoken[i].engine = "queued")
            /\ (utteranceEnd(i) \/ utteranceError(i))

\* TranslationHistory, second definition, line 546: the object is built on every
\* render, outside any guard
TranslationHistory_546 ==
    /\ uncaught = ""
    /\ uncaught' = IF SynthesisConstructs(features) THEN ""
                   ELSE "Speech synthesis not supported in this browser"
    /\ UNCHANGED <<features, refs, recognizer, isListening, recCalls, notified, reported,
                   spoken, notSpeech>>

\* TranslationHistory.handleSpeak, lines 407-419
handleSpeak(t, language, fate) ==
    /\ Len(spoken) < MaxUtterances
    /\ IF ~getSpeechSupport(features).synthesis
       THEN /\ reported' = ToastNoSynthesis
            /\ spoken' = spoken
       ELSE IF ~SynthesisConstructs(features)
       THEN /\ reported' = ToastSpeakFailed
            /\ spoken' = spoken
       ELSE /\ reported' = IF Length(Trim(t)) = 0 \/ fate = "throws" THEN ToastSpeakFailed
                           ELSE reported
            /\ spoken' =
                  IF Length(Trim(t)) = 0
                  THEN Append(spoken, Utterance(LocaleOf(language), "rejected", "none"))
                  ELSE IF fate = "throws"
                  THEN Append(Cancel(spoken),
                              Utterance(LocaleOf(language), "rejected", "none"))
                  ELSE Append(Cancel(spoken), Utterance(LocaleOf(language), "pending", fate))
    /\ UNCHANGED <<features, refs, recognizer, isListening, recCalls, notified, uncaught,
                   notSpeech>>

\* TranslationInterface.startListening, lines 125-146
TI_startListening ==
    IF ~refs.recognition \/ ~getSpeechSupport(features).recognition
    THEN /\ reported' = ToastNoRecognition
         /\ UNCHANGED <<features, refs, recognizer, isListening, recCalls, notified, spoken,
                        uncaught, notSpeech>>
    ELSE /\ Listen
         /\ TI_isListening' = (recognizer' = "starting")
         /\ UNCHANGED <<uiVars, convVars, targetLang, cmVars>>

\* TranslationInterface.stopListening
TI_stopListening ==
    /\ refs.recognition
    /\ TI_isListening' = FALSE
    /\ IF isListening THEN Halt ELSE UNCHANGED <<speechVars, notVoice>>
    /\ UNCHANGED <<uiVars, convVars, targetLang, cmVars>>

\* transcript: the texts of the results from resultIndex on, concatenated
TextOf(transcript) == [n \in 1..Len(transcript) |-> Run(transcript[n], 3)]

\* the onResult callback of TranslationInterface.startListening, lines 131-137
TI_onresult(ev) ==
    /\ Deliver(ev)
    /\ IF OnResult(ev).isFinal
       THEN /\ TI_isListening' = FALSE
            /\ SourceTextChanged(TextOf(OnResult(ev).transcript))
       ELSE /\ sourceText' = TextOf(OnResult(ev).transcript)
            /\ UNCHANGED <<translatedText, confidence, alternatives, autoDetect, sourceLang,
                           isTranslating, timeout, stale, flows, notice, TI_isListening>>
    /\ UNCHANGED <<convVars, targetLang, cmVars>>

\* the onError callback of TranslationInterface.startListening, lines 139-142
TI_onerror(code) ==
    /\ Fail(code)
    /\ TI_isListening' = FALSE
    /\ UNCHANGED <<uiVars, convVars, targetLang, cmVars>>

\* the textarea: disabled={isTranslating || isListening}
textarea(t) == ~isTranslating /\ ~TI_isListening /\ handleSourceTextChange(t)

\* the voice button: disabled={isTranslating}, stopListening or startListening
voiceButton ==
    /\ getSpeechSupport(features).recognition
    /\ ~isTranslating
    /\ IF TI_isListening THEN TI_stopListening ELSE TI_startListening

\* the swap button: disabled={isTranslating}
swapButton == ~isTranslating /\ swapLanguages

\* TranslationInterface.speakText, lines 155-166
speakText(t, language, fate) ==
    IF ~refs.synthesis \/ ~getSpeechSupport(features).synthesis \/ Length(Trim(t)) = 0
    THEN /\ reported' = "Speech synthesis not supported or no text to speak"
         /\ UNCHANGED <<features, refs, recognizer, isListening, recCalls, notified, spoken,
                        uncaught, notSpeech>>
    ELSE /\ Len(spoken) < MaxUtterances
         /\ spoken' = IF fate = "throws"
                      THEN Append(Cancel(spoken),
                                  Utterance(LocaleOf(language), "rejected", "none"))
                      ELSE Append(Cancel(spoken), Utterance(LocaleOf(language), "pending", fate))
         /\ reported' = IF fate = "throws" THEN ToastSpeakFailed ELSE reported
         /\ UNCHANGED <<features, refs, recognizer, isListening, recCalls, notified, uncaught,
                        notSpeech>>

\* the page is loaded again
Unmount ==
    /\ refs # NoRefs \/ uncaught # ""
    /\ refs' = NoRefs
    /\ uncaught' = ""
    /\ recognizer' = "idle"
    /\ isListening' = FALSE
    /\ recCalls' = <<>>
    /\ notified' = <<>>
    /\ reported' = ""
    /\ spoken' = <<>>
    /\ UNCHANGED <<features, notSpeech>>

InitSpeech ==
    /\ refs = NoRefs
    /\ recognizer = "idle"
    /\ isListening = FALSE
    /\ recCalls = <<>>
    /\ notified = <<>>
    /\ reported = ""
    /\ spoken = <<>>
    /\ uncaught = ""

----------------------------------------------------------------------------
(* ConversationMode: the messages of a session and their persistence *)

MaxMessages == 2

MaxSaves == 2

MaxHeard == 3

User1Language == "English"

User2Language == "Spanish"

Senders == {"user_1", "user_2"}

\* sender === 'user_1' ? user1Language : user2Language
LanguageOfSpeaker(speaker) == IF speaker = "user_1" THEN User1Language ELSE User2Language

\* sender === 'user_1' ? user2Language : user1Language
TargetOfSender(sender) == IF sender = "user_1" THEN User2Language ELSE User1Language

ToastNoMessages == "No messages to save"

ToastSaved == "Conversation saved successfully"

ToastSaveFailed == "Failed to save conversation"

ToastCleared == "Messages cleared"

ToastNotTranslated == "Failed to translate message"

\* utterance: the number of the transcript among those handed to handleMessage
Message(i, t, tr, sender, n) ==
    [id |-> i, text |-> t, translation |-> tr, sender |-> sender, utterance |-> n]

\* a call of handleMessage suspended at await translateText
Suspended(t, sender, n) == [text |-> t, sender |-> sender, utterance |-> n]

\* handleMessage from the result of translateText on; m: the suspended call
MessageAnswered(o, m, rest) ==
    /\ talking' = rest
    /\ IF o.kind = "return"
       THEN /\ messages' = Append(messages,
                                  Message(Len(appended) + 1, m.text, o.translatedText, m.sender,
                                          m.utterance))
            /\ appended' = Append(appended,
                                  Message(Len(appended) + 1, m.text, o.translatedText, m.sender,
                                          m.utterance))
            /\ toSpeak' = IF refs.synthesis /\ getSpeechSupport(features).synthesis
                          THEN Append(toSpeak, TargetOfSender(m.sender))
                          ELSE toSpeak
            /\ cnotice' = cnotice
       ELSE /\ cnotice' = ToastNotTranslated
            /\ UNCHANGED <<messages, appended, toSpeak>>

\* what handleMessage does to the state of the component, up to its first await
MessageHandled(t, sender) ==
    LET o == translateTextSync(t, LanguageOfSpeaker(sender), TargetOfSender(sender), apiKey) IN
    /\ Len(appended) + Len(talking) < MaxMessages
    /\ handed < MaxHeard
    /\ handed' = handed + 1
    /\ IF o.kind = "request"
       THEN /\ talking' = Append(talking, Suspended(t, sender, handed + 1))
            /\ UNCHANGED <<messages, appended, toSpeak, cnotice>>
       ELSE MessageAnswered(o, Suspended(t, sender, handed + 1), talking)
    /\ UNCHANGED <<saving, saved, conversations>>

\* the recogniser's final transcript t of speaker sender: handleMessage, lines 95-123
handleMessage(t, sender) ==
    /\ refs.recognition
    /\ MessageHandled(t, sender)
    /\ UNCHANGED <<speechVars, notConv>>

\* ConversationMode.startListening, lines 59-85; a start() that throws runs onError
CM_startListening(speaker) ==
    IF ~refs.recognition \/ ~getSpeechSupport(features).recognition
    THEN /\ reported' = ToastNoRecognition
         /\ UNCHANGED <<features, refs, recognizer, isListening, recCalls, notified, spoken,
                        uncaught, notSpeech>>
    ELSE /\ Listen
         /\ CM_isListening' = (recognizer' = "starting")
         /\ currentSpeaker' = IF recognizer' = "starting" THEN speaker ELSE "null"
         /\ cbSpeaker' = speaker
         /\ UNCHANGED <<uiVars, convVars, targetLang, TI_isListening>>

\* stopListening without setCurrentSpeaker(null)
CM_stopListening_KeepsSpeaker ==
    /\ refs.recognition
    /\ CM_isListening' = FALSE
    /\ IF isListening THEN Halt ELSE UNCHANGED <<speechVars, notVoice>>
    /\ UNCHANGED <<uiVars, convVars, targetLang, TI_isListening, currentSpeaker, cbSpeaker>>

\* ConversationMode.stopListening, lines 87-93
CM_stopListening ==
    /\ refs.recognition
    /\ CM_isListening' = FALSE
    /\ currentSpeaker' = "null"
    /\ IF isListening THEN Halt ELSE UNCHANGED <<speechVars, notVoice>>
    /\ UNCHANGED <<uiVars, convVars, targetLang, TI_isListening, cbSpeaker>>

\* the onResult callback of ConversationMode.startListening, lines 72-78
CM_onresult(ev) ==
    /\ cbSpeaker # "null"
    /\ Deliver(ev)
    /\ IF OnResult(ev).isFinal
       THEN /\ CM_isListening' = FALSE
            /\ currentSpeaker' = "null"
            /\ MessageHandled(TextOf(OnResult(ev).transcript), cbSpeaker)
       ELSE UNCHANGED <<convVars, CM_isListening, currentSpeaker>>
    /\ UNCHANGED <<uiVars, targetLang, TI_isListening, cbSpeaker>>

\* the onError callback of ConversationMode.startListening, lines 79-83
CM_onerror(code) ==
    /\ cbSpeaker # "null"
    /\ Fail(code)
    /\ CM_isListening' = FALSE
    /\ currentSpeaker' = "null"
    /\ UNCHANGED <<uiVars, convVars, targetLang, TI_isListening, cbSpeaker>>

OtherSpeaker(speaker) == IF speaker = "user_1" THEN "user_2" ELSE "user_1"

\* the two voice buttons: disabled={currentSpeaker === <other> || !speechSupport.recognition}
speakerButton(speaker) ==
    /\ currentSpeaker # OtherSpeaker(speaker)
    /\ getSpeechSupport(features).recognition
    /\ IF CM_isListening THEN CM_stopListening ELSE CM_startListening(speaker)

\* await translateText resumes with the provider's answer r
MessageTranslated(i, r) ==
    /\ i \in 1..Len(talking)
    /\ MessageAnswered(translateTextReply(LanguageOfSpeaker(talking[i].sender),
                                   TargetOfSender(talking[i].sender), r),
                        talking[i], RemoveAt(talking, i))
    /\ UNCHANGED <<saving, saved, conversations, handed, speechVars, notConv>>

\* the timer of the auto-speak fires: speechSynthesis.current?.speak(...)
autoSpeak(fate) ==
    /\ toSpeak # <<>>
    /\ Len(spoken) < MaxUtterances
    /\ toSpeak' = Tail(toSpeak)
    /\ spoken' = IF ~refs.synthesis THEN spoken
                 ELSE IF fate = "throws"
                 THEN Append(Cancel(spoken),
                             Utterance(LocaleOf(Head(toSpeak)), "rejected", "none"))
                 ELSE Append(Cancel(spoken), Utterance(LocaleOf(Head(toSpeak)), "pending", fate))
    /\ UNCHANGED <<messages, talking, saving, saved, conversations, appended, handed, cnotice,
                   features, refs, recognizer, isListening, recCalls, notified, reported,
                   uncaught, notConv>>

\* saveSession, up to await saveConversationSession
saveSession ==
    /\ Len(saved) < MaxSaves
    /\ IF Len(messages) = 0
       THEN /\ cnotice' = ToastNoMessages
            /\ UNCHANGED <<saving, saved>>
       ELSE /\ saving' = Append(saving, messages)
            /\ saved' = Append(saved, messages)
            /\ cnotice' = cnotice
    /\ UNCHANGED <<messages, talking, toSpeak, conversations, appended, handed, speechVars,
                   notConv>>

\* the store answers the insertOne of saveConversationSession
SessionSaved(i, ok) ==
    /\ i \in 1..Len(saving)
    /\ saving' = RemoveAt(saving, i)
    /\ conversations' = IF ok THEN Append(conversations, saving[i]) ELSE conversations
    /\ cnotice' = IF ok THEN ToastSaved ELSE ToastSaveFailed
    /\ UNCHANGED <<messages, talking, toSpeak, saved, appended, handed, speechVars, notConv>>

\* clearMessages; confirmed: the user's answer to confirm()
clearMessages(confirmed) ==
    /\ Len(messages) # 0
    /\ IF confirmed
       THEN /\ messages' = <<>>
            /\ cnotice' = ToastCleared
       ELSE UNCHANGED <<messages, cnotice>>
    /\ UNCHANGED <<talking, toSpeak, saving, saved, conversations, appended, handed, speechVars,
                   notConv>>

InitConv ==
    /\ messages = <<>>
    /\ talking = <<>>
    /\ toSpeak = <<>>
    /\ saving = <<>>
    /\ saved = <<>>
    /\ conversations = <<>>
    /\ appended = <<>>
    /\ handed = 0
    /\ cnotice = ""
    /\ CM_isListening = FALSE
    /\ currentSpeaker = "null"
    /\ cbSpeaker = "null"

InitFront ==
    /\ InitUi /\ InitSpeech /\ features = AllFeatures /\ InitPage /\ languageStore = {}
    /\ InitConv

----------------------------------------------------------------------------
(* Specifications *)

NoKey == Key(FALSE, <<>>)

\* the translation pipeline and the health check, under any fixed environment
Init == apiKey \in Keys /\ InitApi /\ InitStore /\ InitFront

Next ==
    \/ \E b \in Bodies : POST(b)
    \/ \E r \in DetectReplies : DetectReply(r)
    \/ \E r \in TranslateReplies : TranslateReply(r)
    \/ \E t \in Texts, s, g \in Languages : translateText(t, s, g)
    \/ \E t \in Texts : Validate(t)
    \/ GET_108
    \/ GET_261
    \/ \E r \in TranslateReplies : HealthReply(r)
    \/ \E r \in ProviderFailures : Retry(r)
    \/ Reset

Spec == Init /\ [][Next]_vars

AltReplies ==
    { AltSuccess(<<>>), AltSuccess(<<Hello, <<Run(" ", 1)>>, Hello, Hello>>) }
    \cup ProviderFailures

\* the three producers of a translation result
NextResults ==
    \/ \E b \in Bodies : POST(b)
    \/ \E r \in DetectReplies : DetectReply(r)
    \/ \E t \in Texts, s, g \in Languages : translateText(t, s, g)
    \/ \E r \in TranslateReplies : TranslateReply(r)
    \/ \E t \in Texts, s, g \in Languages : translateWithContext(t, s, g)
    \/ \E r \in TranslateReplies : ContextReply(r)
    \/ \E a \in AltReplies : AlternativesReply(a)
    \/ \E r \in ProviderFailures : Retry(r)
    \/ Reset

SpecResults == Init /\ [][NextResults]_vars

\* translateText called again and again, the environment changing in between
InitTaxonomy == apiKey = NoKey /\ InitApi /\ InitStore /\ InitFront

NextTaxonomy ==
    \/ \E k \in Keys : Configure(k)
    \/ \E t \in {Hello}, s, g \in {"English", "Spanish"} : translateText(t, s, g)
    \/ \E r \in TranslateReplies : TranslateReply(r)
    \/ \E r \in ProviderFailures : Retry(r)
    \/ Remember

SpecTaxonomy == InitTaxonomy /\ [][NextTaxonomy]_vars

\* the persistence adapter and the /history route over the object store
InitHistory == apiKey = NoKey /\ InitApi /\ InitStore /\ InitFront

NextStore ==
    \/ \E u \in Users \cup {""} : HistoryGET(u)
    \/ \E u \in Users \cup {""} : getTranslationHistory(u)
    \/ \E i \in 0..MaxRecords : HistoryDELETE(i)
    \/ \E i \in 1..MaxRecords : deleteTranslation(i)
    \/ \E u \in Users : saveTranslation(u)
    \/ FindReply
    \/ DeleteReply
    \/ \E i \in 1..MaxRecords, ts \in Timestamps, ok \in BOOLEAN : InsertReply(i, ts, ok)
    \/ StoreReset

SpecStore == InitHistory /\ [][NextStore]_vars

\* the history view of the page over the object store
NextView ==
    \/ loadData
    \/ LanguagesReply
    \/ \E i \in 1..MaxShown, c \in BOOLEAN : handleDelete(i, c)
    \/ \E i \in 1..MaxShown : HistoryDELETE(i)
    \/ \E u \in Users : saveTranslation(u)
    \/ FindReply
    \/ DeleteReply
    \/ \E i \in 1..MaxShown, ts \in Timestamps, ok \in BOOLEAN : InsertReply(i, ts, ok)
    \/ StoreReset

SpecView == InitHistory /\ [][NextView]_vars

\* the language objects an editor may have put into the store
LanguageObjects == {Language(1, "English"), Language(2, "French"), Language(3, "Swahili")}

\* the languages route and the page's loading, over any content of the store
InitLanguages ==
    /\ apiKey = NoKey /\ InitApi /\ InitStore /\ InitUi /\ InitSpeech
    /\ features = AllFeatures /\ InitPage /\ languageStore \in SUBSET LanguageObjects
    /\ InitConv

NextLanguages ==
    \/ LanguagesGET
    \/ loadData
    \/ LanguagesReply
    \/ FindReply
    \/ StoreReset

SpecLanguages == InitLanguages /\ [][NextLanguages]_vars


\* what the user types into the source text field
Typed == { <<>>, <<Run(" ", 2)>>, <<Run("a", 3)>>, <<Run("b", 12)>> }

UiTranslateReplies ==
    { Success(<<Run("c", 4)>>), Success(<<>>), Failure(Err(RawRate, 429, ""), "rate") }

UiDetectReplies ==
    { DetectSuccess(Content(0, "French", FALSE)), DetectSuccess(Content(0, Unknown, FALSE)),
      DetectFailure(Err(RawTimeout, 0, ""), "timeout") }

InsertAnswers == { Answer(200, <<>>), Answer(500, <<>>) }

WorkingKey == Key(TRUE, <<"s", "k", "-", "1">>)

\* TranslationInterface: typing, clearing, the auto-detect checkbox, the debounce
\* timers and the translations they start
InitInput == apiKey = WorkingKey /\ InitApi /\ InitStore /\ InitFront

NextInput ==
    \/ \E t \in Typed : handleSourceTextChange(t)
    \/ clearText
    \/ setAutoDetect
    \/ Fire
    \/ FireStale
    \/ \E i \in 1..MaxFlows, r \in UiDetectReplies : FlowDetected(i, r)
    \/ \E i \in 1..MaxFlows, r \in UiTranslateReplies : FlowTranslated(i, r)
    \/ \E i \in 1..MaxFlows, a \in InsertAnswers : FlowSaved(i, a)

SpecInput == InitInput /\ [][NextInput]_vars

\* one SpeechRecognition object, its callers and the browser's recogniser
NextListen ==
    \/ Mount
    \/ startListening
    \/ stopListening
    \/ onstart
    \/ \E ev \in ResultEvents : onresult(ev)
    \/ \E code \in ErrorCodes : onerror(code)
    \/ onend

SpecListen == InitInput /\ [][NextListen]_vars

Spoken == { <<>>, <<Run(" ", 2)>>, <<Run("a", 3)>> }

SpokenLanguages == {"English", "Spanish", "Klingon"}

\* one SpeechSynthesis object, its callers and the browser's engine, which plays
\* every utterance it keeps queued
NextSpeak ==
    \/ Mount
    \/ \E t \in Spoken, l \in SpokenLanguages, f \in Fates : speak(t, l, f)
    \/ \E t \in Spoken, l \in SpokenLanguages, f \in Fates : speak_536(t, l, f)
    \/ stop
    \/ \E i \in 1..MaxUtterances : utteranceEnd(i)
    \/ \E i \in 1..MaxUtterances : utteranceError(i)

SpecSpeak == InitInput /\ [][NextSpeak]_vars /\ WF_vars(Playback)

\* the components in a browser with any set of speech features
InitSupport ==
    /\ apiKey = WorkingKey /\ InitApi /\ InitStore /\ InitUi /\ InitSpeech
    /\ features \in Features /\ InitPage /\ languageStore = {} /\ InitConv

NextSupport ==
    \/ Mount
    \/ TranslationHistory_546
    \/ \E t \in Spoken, l \in SpokenLanguages, f \in Fates : handleSpeak(t, l, f)
    \/ TI_startListening
    \/ \E t \in Spoken, l \in SpokenLanguages, f \in Fates : speakText(t, l, f)
    \/ \E i \in 1..MaxUtterances : utteranceEnd(i)
    \/ \E i \in 1..MaxUtterances : utteranceError(i)
    \/ onstart
    \/ onend
    \/ Unmount

SpecSupport == InitSupport /\ [][NextSupport]_vars

\* what the recogniser hears in a conversation
Heard == { <<Run(" ", 2)>>, <<Run("a", 3)>> }

\* one session of ConversationMode: the speakers talk, the session is saved and cleared
NextConversation ==
    \/ Mount
    \/ \E t \in Heard, sender \in Senders : handleMessage(t, sender)
    \/ \E i \in 1..MaxMessages, r \in UiTranslateReplies : MessageTranslated(i, r)
    \/ \E fate \in Fates : autoSpeak(fate)
    \/ saveSession
    \/ \E i \in 1..MaxSaves, ok \in BOOLEAN : SessionSaved(i, ok)
    \/ \E c \in BOOLEAN : clearMessages(c)

InitConversation ==
    apiKey = WorkingKey /\ InitApi /\ InitStore /\ InitFront

SpecConversation == InitConversation /\ [][NextConversation]_vars

\* what the user types into the field
Keyed == { <<>>, <<Run("b", 4)>> }

\* what the recogniser delivers to the field
FieldEvents ==
    { ResultEvent(1, <<Alt("a", FALSE)>>), ResultEvent(1, <<Alt("a", TRUE)>>) }

FieldReplies == { Success(<<Run("c", 4)>>), Failure(Err(RawRate, 429, ""), "rate") }

\* voice input into the source field of TranslationInterface: the controls as
\* rendered, the recogniser, the debounce timer and the answers to the translation
NextVoice ==
    \/ Mount
    \/ \E t \in Keyed : textarea(t)
    \/ voiceButton
    \/ onstart
    \/ \E ev \in FieldEvents : TI_onresult(ev)
    \/ TI_onerror("no-speech")
    \/ onend
    \/ Fire
    \/ \E i \in 1..MaxFlows, r \in FieldReplies : FlowTranslated(i, r)
    \/ \E i \in 1..MaxFlows, a \in InsertAnswers : FlowSaved(i, a)

SpecVoice == InitInput /\ [][NextVoice]_vars

\* TranslationInterface as rendered: typing, the swap button, the
\* auto-detect checkbox, the debounce timers and the answers to the translations
NextField ==
    \/ \E t \in Keyed : textarea(t)
    \/ swapButton
    \/ setAutoDetect
    \/ Fire
    \/ FireStale
    \/ \E i \in 1..MaxFlows, r \in FieldReplies : FlowTranslated(i, r)
    \/ \E i \in 1..MaxFlows, a \in InsertAnswers : FlowSaved(i, a)

SpecField == InitInput /\ [][NextField]_vars

\* the voice controls of ConversationMode as rendered, the recogniser and the answers
\* to the translations of what it heard
NextSpeakers ==
    \/ Mount
    \/ \E speaker \in Senders : speakerButton(speaker)
    \/ onstart
    \/ \E ev \in FieldEvents : CM_onresult(ev)
    \/ CM_onerror("no-speech")
    \/ onend
    \/ \E i \in 1..MaxMessages, r \in FieldReplies : MessageTranslated(i, r)

SpecSpeakers == InitConversation /\ [][NextSpeakers]_vars

\* the provider answers an outstanding translation of the field
TranslationAnswered == \E i \in 1..MaxFlows, r \in FieldReplies : FlowTranslated(i, r)

\* the store answers an outstanding save of the field
SaveAnswered == \E i \in 1..MaxFlows, a \in InsertAnswers : FlowSaved(i, a)

\* SpecField with a provider and a store that eventually answer
SpecFieldAnswered ==
    SpecField /\ WF_vars(TranslationAnswered) /\ WF_vars(SaveAnswered)

\* the history view's delete button and the DELETE route over the object store
NextDelete ==
    \/ loadData
    \/ LanguagesReply
    \/ \E i \in 1..MaxShown, c \in BOOLEAN : handleDelete(i, c)
    \/ \E i \in 1..MaxShown : HistoryDELETE(i)
    \/ \E u \in Users : saveTranslation(u)
    \/ FindReply
    \/ DeleteReply
    \/ \E i \in 1..MaxShown, ok \in BOOLEAN : InsertReply(i, [day |-> 1, sec |-> 10], ok)
    \/ StoreReset

SpecDelete == InitHistory /\ [][NextDelete]_vars

\* TranslationInterface without the auto-detect checkbox: typing, the debounce timer,
\* and the answers to the translations and to the saves
NextSave ==
    \/ \E t \in Typed : handleSourceTextChange(t)
    \/ clearText
    \/ Fire
    \/ \E i \in 1..MaxFlows, r \in UiTranslateReplies : FlowTranslated(i, r)
    \/ \E i \in 1..MaxFlows, a \in InsertAnswers : FlowSaved(i, a)

SpecSave == InitInput /\ [][NextSave]_vars

----------------------------------------------------------------------------
(* Claims about the translation pipeline *)

Serving(e) == entry = e /\ pc # "idle"

Done(e) == entry = e /\ pc = "done"

SameNonEmpty == req.sourceLanguage = req.targetLanguage /\ req.sourceLanguage # ""

NonBlank == Length(Trim(req.text.runs)) > 0

Over == Length(req.text.runs) > MaxTextLength

\* the response hands back the request's text with confidence 1.0, no alternatives
RespUnchanged ==
    /\ response.status = 200
    /\ response.success
    /\ response.translatedText = req.text.runs
    /\ response.confidence = ConfidenceSameLanguage
    /\ response.alternatives = <<>>

OutcomeUnchanged ==
    /\ outcome.kind = "return"
    /\ outcome.translatedText = req.text.runs
    /\ outcome.confidence = ConfidenceSameLanguage
    /\ outcome.alternatives = <<>>

KeyWellFormed ==
    apiKey.set /\ Len(apiKey.val) >= 3 /\ apiKey.val[1] = "s" /\ apiKey.val[2] = "k"
    /\ apiKey.val[3] = "-"

\* a POST body that passes every input check of the handler
ValidBody ==
    /\ req.json = "object"
    /\ req.text.type = "string"
    /\ NonBlank
    /\ ~Over
    /\ req.sourceLanguage # ""
    /\ req.targetLanguage # ""

DetectionAsked == req.autoDetect /\ Length(req.text.runs) > DetectMinLength

\* C1 as stated: for every non-empty text and non-empty language L, a request with
\* source = target = L returns the text unchanged with confidence 1.0 and no
\* alternatives, and sends nothing to the completion API, on translateText and on
\* POST /translate (autoDetect included).
C1_Original ==
    /\ (Serving("translateText") /\ SameNonEmpty /\ Length(req.text.runs) > 0)
          => (apiCalls = <<>> /\ (pc = "done" => OutcomeUnchanged))
    /\ (Serving("POST") /\ req.json = "object" /\ req.text.type = "string" /\ SameNonEmpty
        /\ Length(req.text.runs) > 0)
          => (apiCalls = <<>> /\ (pc = "done" => RespUnchanged))

\* C1 amended: translateText(text, L, L) on a text that is not blank returns the
\* text unchanged, confidence 1.0, no alternatives, and sends no request.  POST
\* /translate with source = target = L, a valid body and a well-formed credential
\* does the same when detection is not run; when it is run the only request sent
\* before the answer is the detection request, and the text comes back unchanged
\* with no translation request unless detection named another language.
C1_SameLanguage ==
    /\ (Serving("translateText") /\ SameNonEmpty /\ NonBlank)
          => (apiCalls = <<>> /\ pc = "done" /\ OutcomeUnchanged)
    /\ (Serving("POST") /\ ValidBody /\ KeyWellFormed /\ SameNonEmpty /\ ~DetectionAsked)
          => (apiCalls = <<>> /\ pc = "done" /\ RespUnchanged)
    /\ (Serving("POST") /\ ValidBody /\ KeyWellFormed /\ SameNonEmpty /\ DetectionAsked)
          => /\ apiCalls \in {<<>>, <<"detect">>, <<"detect", "translate">>}
             /\ (pc = "done" /\ actualSourceLang = req.sourceLanguage)
                   => (RespUnchanged /\ Len(apiCalls) <= 1)
             /\ (Len(apiCalls) = 2) => actualSourceLang # req.sourceLanguage

C1_Witness ==
    /\ Done("POST")
    /\ SameNonEmpty
    /\ DetectionAsked
    /\ RespUnchanged
    /\ apiCalls = <<"detect">>
    /\ detected = req.sourceLanguage

Rejected ==
    CASE entry = "validate" -> outcome.kind = "invalid"
      [] entry = "translateText" -> outcome.kind = "throw"
      [] entry = "POST" -> response.status >= 400 /\ ~response.success
      [] OTHER -> FALSE

InPipeline == entry \in {"validate", "translateText", "POST"} /\ req.json \in {"object", "call"}

\* C2 as stated: for every text longer than 5000 characters and every source and
\* target language, validateTranslationInput, POST /translate and translateText end
\* in a rejection, with no request to the completion API before it.
C2_Original ==
    (InPipeline /\ pc # "idle" /\ req.text.type = "string" /\ Over)
        => (apiCalls = <<>> /\ pc = "done" /\ Rejected)

\* C2 amended: a text longer than 5000 characters is rejected by
\* validateTranslationInput and by POST /translate (status 400), and by translateText
\* unless source and target are the same non-empty language and the text is not
\* blank, in which case translateText returns the text unchanged; no request to the
\* completion API is sent in any of these cases.
C2_TooLong ==
    (InPipeline /\ pc # "idle" /\ req.text.type = "string" /\ Over)
        => /\ apiCalls = <<>>
           /\ pc = "done"
           /\ entry = "validate" => outcome.kind = "invalid"
           /\ entry = "POST" => (response.status = 400 /\ ~response.success)
           /\ entry = "translateText" =>
                 IF SameNonEmpty /\ NonBlank THEN OutcomeUnchanged
                 ELSE outcome.kind = "throw"

C2_Witness ==
    /\ Done("translateText")
    /\ Over
    /\ NonBlank
    /\ req.sourceLanguage = "English"
    /\ req.targetLanguage = "Spanish"
    /\ outcome.kind = "throw"
    /\ outcome.message = MsgTooLong
    /\ apiCalls = <<>>

Blank == req.text.type = "string" /\ ~NonBlank

SurfacedMessage == IF entry = "POST" THEN response.error ELSE outcome.message

\* C3 as stated: every empty or whitespace-only text fails validation with one fixed
\* message, the same for the empty string and whitespace-only text on every entry
\* point of the pipeline, and no external request is made.
C3_Original ==
    (InPipeline /\ pc # "idle" /\ Blank)
        => (apiCalls = <<>> /\ pc = "done" /\ Rejected /\ SurfacedMessage = MsgEnterText)

\* C3 amended: validateTranslationInput fails with one fixed message for the empty
\* string and for whitespace-only text; translateText rejects both with its own fixed
\* message; POST /translate answers 400, with the text-required message for the
\* empty string and, for whitespace-only text, with the validation message when
\* both languages are given and with the languages-required message otherwise; no
\* external request is made in any of these cases.
C3_BlankRejected ==
    (InPipeline /\ pc # "idle" /\ Blank)
        => /\ apiCalls = <<>>
           /\ pc = "done"
           /\ Rejected
           /\ entry = "validate" => outcome.message = MsgEnterText
           /\ entry = "translateText" => outcome.message = MsgEmptyText
           /\ entry = "POST" =>
                 /\ response.status = 400
                 /\ response.error =
                       IF Length(req.text.runs) = 0 THEN MsgTextRequired
                       ELSE IF req.sourceLanguage = "" \/ req.targetLanguage = ""
                            THEN MsgLanguagesRequired
                       ELSE MsgEnterText

C3_Witness ==
    /\ Done("POST")
    /\ Blank
    /\ Length(req.text.runs) > 0
    /\ response.status = 400
    /\ response.error = MsgEnterText
    /\ apiCalls = <<>>

\* the detection step of POST was run and gave no usable language
DetectionFailed ==
    /\ entry = "POST"
    /\ pc \in {"translate", "done"}
    /\ ValidBody
    /\ KeyWellFormed
    /\ DetectionAsked
    /\ detected = Unknown

\* C4: in POST /translate with autoDetect, when detection fails or yields "Unknown"
\* translateText is still called, with the caller's source language; the response
\* carries no detectedLanguage, and its error field, if any, is the failure of the
\* translation step alone.
C4_DetectionFallback ==
    DetectionFailed
        => /\ translateSource = req.sourceLanguage
           /\ actualSourceLang = req.sourceLanguage
           /\ pc = "done" =>
                 /\ outcome.kind \in {"return", "throw"}
                 /\ response.detectedLanguage = Undefined
                 /\ outcome.kind = "return" =>
                       (response.success /\ response.error = "" /\ response.code = ""
                        /\ response.sourceLanguage = req.sourceLanguage)
                 /\ outcome.kind = "throw" =>
                       (response.error = outcome.message /\ response.code = "TRANSLATION_ERROR")

C4_Witness ==
    /\ DetectionFailed
    /\ pc = "done"
    /\ apiCalls = <<"detect", "translate">>
    /\ response.success
    /\ response.sourceLanguage = req.sourceLanguage
    /\ response.confidence = ConfidenceProvider


\* C6: a POST /translate that passes input validation while the credential is missing
\* or does not start with "sk-" is answered 500 with a machine-readable code
\* (MISSING_API_KEY when it is missing), and sends no detection or translation request.
C6_ConfigurationError ==
    (Serving("POST") /\ ValidBody /\ ~KeyWellFormed)
        => /\ pc = "done"
           /\ apiCalls = <<>>
           /\ response.status = 500
           /\ ~response.success
           /\ response.error # ""
           /\ response.code =
                 IF ~apiKey.set \/ apiKey.val = <<>> THEN "MISSING_API_KEY"
                 ELSE "INVALID_API_KEY"

C6_Witness ==
    /\ Done("POST")
    /\ ValidBody
    /\ req.autoDetect
    /\ apiKey.set
    /\ apiKey.val # <<>>
    /\ ~KeyWellFormed
    /\ response.status = 500
    /\ response.code = "INVALID_API_KEY"

HealthServed == pc = "done" /\ entry \in {"GET_108", "GET_261"}

\* C7: with no credential configured GET /translate answers status "error" and
\* configured false; it answers configured true only when a credential is present.
C7_HealthReportsMissingKey ==
    HealthServed
        => /\ (~apiKey.set \/ apiKey.val = <<>>)
                 => (response.health = "error" /\ ~response.configured)
           /\ response.configured => (apiKey.set /\ apiKey.val # <<>>)

----------------------------------------------------------------------------
(* Claims about the persistence adapter *)

Answered(f) == op.state = "done" /\ op.fn = f

\* C5: deleting a record the store does not hold does not throw from
\* deleteTranslation and counts as success: DELETE /history answers success and the
\* history view reports the deletion as done.
C5_DeleteMissingSucceeds ==
    (Answered("delete") /\ found.status = 404)
        => /\ result.kind = "return"
           /\ op.caller = "DELETE" => (hresponse.status = 200 /\ hresponse.success)
           /\ op.caller = "handleDelete" => toast = ToastDeleted

NoMatch == Matching(store, op.userId) = {} /\ found.status \in {200, 404}

\* C8: when the store holds no matching translation records, whether it answers
\* with an empty list or with 'not found', getTranslationHistory returns the empty
\* list and GET /history answers {translations: []} with a success status.
C8_EmptyHistory ==
    (Answered("find") /\ NoMatch)
        => /\ result.kind = "return"
           /\ result.value = <<>>
           /\ op.caller = "GET" =>
                 (hresponse.status = 200 /\ hresponse.translations = <<>>
                  /\ hresponse.error = "")

C8_Witness ==
    /\ Answered("find")
    /\ op.caller = "GET"
    /\ op.userId = "u1"
    /\ store # {}
    /\ found.status = 404
    /\ hresponse.status = 200
    /\ hresponse.translations = <<>>

Occurrences(q, x) == Cardinality({n \in 1..Len(q) : q[n] = x})

IsPermutation(p, q) ==
    /\ Len(p) = Len(q)
    /\ \A n \in 1..Len(q) : Occurrences(p, q[n]) = Occurrences(q, q[n])

Descending(q) ==
    \A n \in 1..(Len(q) - 1) : getTime(q[n].created_at) >= getTime(q[n + 1].created_at)

\* C9: the list getTranslationHistory returns is a permutation of the records the
\* store returned, all of the asked user when a user id is given, ordered by
\* creation time descending.
C9_SortedHistory ==
    (Answered("find") /\ found.status = 200)
        => /\ result.kind = "return"
           /\ IsPermutation(result.value, found.objects)
           /\ Descending(result.value)
           /\ \A n \in 1..Len(result.value) :
                 op.userId # "" => result.value[n].user_id = op.userId

C9_Witness ==
    /\ Answered("find")
    /\ found.status = 200
    /\ Len(found.objects) = 3
    /\ ~Descending(found.objects)
    /\ result.value # found.objects
    /\ getTime(result.value[1].created_at) > getTime(result.value[3].created_at)

----------------------------------------------------------------------------
(* Claims about the failure taxonomy *)

FailureClasses ==
    {"missing", "malformed", "auth", "rate", "unavailable", "timeout", "network", "generic"}

Surfaced == pc = "done" /\ entry = "translateText" /\ outcome.kind = "throw"

\* C10: translateText maps the eight failure classes to messages of their own: two
\* failures of different classes never surface with the same message, and two
\* failures of one class other than the generic one surface with the same message.
C10_DistinctMessages ==
    (Surfaced /\ outcome.class \in FailureClasses /\ lastFailure.class \in FailureClasses)
        => /\ outcome.class # lastFailure.class => outcome.message # lastFailure.message
           /\ (outcome.class = lastFailure.class /\ outcome.class # "generic")
                 => outcome.message = lastFailure.message

C10_Witness ==
    /\ Surfaced
    /\ outcome.class = "malformed"
    /\ lastFailure.class = "missing"
    /\ outcome.message # lastFailure.message

----------------------------------------------------------------------------
(* Claims about retries *)

Calls(kind) == Cardinality({n \in 1..Len(apiCalls) : apiCalls[n] = kind})

\* once the handler has answered nothing more is sent before the next invocation
QuietAfterAnswer == pc = "done" => (sent' = sent \/ (pc' = "idle" /\ sent' = <<>>))

----------------------------------------------------------------------------
(* Claims about the translation input field *)

PendingTimers == stale \cup (IF timeout.pending THEN {timeout} ELSE {})

\* C12: every change of the source text, one that empties the field and the clear
\* action included, cancels the pending translation: at most one debounce timer is
\* pending at any time, and a pending timer carries the text of the latest change.
C12_OnePendingLatestText ==
    /\ Cardinality(PendingTimers) <= 1
    /\ \A tm \in PendingTimers : tm.text = sourceText

\* the step in which await saveTranslation(...) rejects
SaveFailed ==
    /\ \E i \in 1..Len(flows) : flows[i].pc = "save" /\ flows' = RemoveAt(flows, i)
    /\ result'.kind = "throw"

\* C17: when translateText has succeeded and saveTranslation then fails, the failure
\* is reported with an error toast, and the displayed translation, confidence and
\* alternatives are left as they are.
C17_SaveFailureKeepsResult ==
    [][SaveFailed => (/\ notice' = ToastFailed
                      /\ UNCHANGED <<translatedText, confidence, alternatives>>)]_vars

C17_Witness ==
    /\ result.kind = "throw"
    /\ result.message = MsgSave
    /\ flows = <<>>
    /\ notice = ToastFailed
    /\ sourceText = <<Run("a", 3)>>
    /\ translatedText = <<Run("c", 4)>>
    /\ confidence = ConfidenceProvider
    /\ alternatives = <<>>

----------------------------------------------------------------------------
(* Claims about speech recognition *)

\* C13: only one recognition session is active at a time: a startListening made
\* while a session is active, or started and not yet reported by onstart, stops it
\* first, so the recogniser is never started twice without a stop in between.
C13_StopBeforeRestart ==
    \A n \in 1..(Len(recCalls) - 1) : ~(recCalls[n] = "start" /\ recCalls[n + 1] = "start")

\* C14: within one recognition session onResult is called with isFinal = true no
\* more than once, and that call is the last result notification of the session.
C14_OneFinalLast ==
    /\ Cardinality(Finals(notified)) <= 1
    /\ \A n \in Finals(notified) : n = Len(notified)

----------------------------------------------------------------------------
(* Claims about speech synthesis and capability flags *)

Unsettled == \E i \in 1..Len(spoken) : spoken[i].promise = "pending"

\* C15: every promise speak returns is eventually settled, even when the engine
\* never fires an end or error event for the utterance.
C15_SpeakSettles == Unsettled ~> ~Unsettled

\* C16: whatever speech features the browser lacks, no exception escapes a
\* component that builds or uses the speech classes.
C16_NothingUncaught == uncaught = ""

----------------------------------------------------------------------------
(* Claims about the status of POST's failure responses *)

\* the input of a request is invalid: the body is not JSON or holds no object,
\* text is missing, not a string, blank or over-length, or a language name is missing
InvalidInput(b) ==
    \/ b.json \in {"invalid", "null"}
    \/ TextMissing(b.text)
    \/ ~validateTranslationInput(b.text.runs).isValid
    \/ b.sourceLanguage = ""
    \/ b.targetLanguage = ""

\* C18: a failure response of POST has status 400 exactly when the input is invalid and
\* status 500 otherwise, and no request is sent to the provider for invalid input,
\* whatever the credential
C18_StatusByFailureKind ==
    (Done("POST") /\ ~response.success) =>
        /\ response.status \in {400, 500}
        /\ response.status = 400 <=> InvalidInput(req)
        /\ InvalidInput(req) => sent = <<>>

----------------------------------------------------------------------------
(* Claims about the languages route *)

\* C19: a successful answer of GET /languages carries a non-empty languages list, also
\* when the store holds no language object
C19_LanguagesNeverEmpty ==
    (op.caller = "GET" /\ op.fn = "languages" /\ op.state = "done" /\ lresponse.status = 200)
        => lresponse.languages # <<>>

----------------------------------------------------------------------------
(* Claims about the persistence of a conversation session *)

\* C20: in one session saveConversationSession is called at most once, and the list
\* it is called with is the complete ordered list of the messages appended in the session
C20_PersistedOnceComplete ==
    /\ Len(saved) <= 1
    /\ \A n \in 1..Len(saved) : saved[n] = appended

----------------------------------------------------------------------------
(* Claims about the order of the requests of one translation *)

\* the positions of sent that hold a request of kind
SentAt(kind) == {n \in 1..Len(sent) : sent[n] = kind}

\* C21: within one request of POST the detection and the translation are never
\* outstanding together: while the detection is awaited no translation request has
\* been sent, and every detection request was sent before the first translation request
C21_DetectThenTranslate ==
    entry = "POST" =>
        /\ pc = "detect" => SentAt("translate") = {}
        /\ \A d \in SentAt("detect"), t \in SentAt("translate") : d < t
        /\ pc = "translate" => sent[Len(sent)] = "translate"

C21_Witness ==
    entry = "POST" /\ pc = "translate" /\ SentAt("detect") # {} /\ SentAt("translate") # {}

----------------------------------------------------------------------------
(* Claims about voice input into the source field *)

Editable == ~isTranslating /\ ~TI_isListening

\* C22: once a final transcript was produced and the source field is editable
\* again, no further recognition result overwrites the source text
C22_NoResultWhenEditable ==
    [][(Editable /\ Finals(notified) # {} /\ Len(notified') > Len(notified))
          => sourceText' = sourceText]_vars

----------------------------------------------------------------------------
(* Claims about the confidence of a result *)

\* a translation result was produced
Produced == pc = "done" /\ outcome.kind = "return"

\* C23: the confidence of a result does not depend on the provider's answer: it is
\* 1.0 for a result produced without a request (the same-language short-circuit) and
\* 0.95 for every result obtained from the completion API; POST hands it on unchanged
C23_ConstantConfidence ==
    Produced =>
        /\ outcome.confidence = IF apiCalls = <<>> \/ apiCalls = <<"detect">>
                                THEN ConfidenceSameLanguage ELSE ConfidenceProvider
        /\ (apiCalls = <<>> \/ apiCalls = <<"detect">>)
              => SameLanguage(translateSource, req.targetLanguage)
        /\ entry = "POST" => response.confidence = outcome.confidence

C23_Witness ==
    /\ Produced
    /\ entry = "translateText"
    /\ outcome.confidence = ConfidenceProvider
    /\ Length(outcome.translatedText) = 4

----------------------------------------------------------------------------
(* Claims about the requests of POST *)

\* POST has answered a request that passed its checks
Served == entry = "POST" /\ pc = "done" /\ PostChecks(req, apiKey).status = 0

\* autoDetect is requested and the text is longer than 10 characters
AskedToDetect == req.autoDetect /\ Length(req.text.runs) > 10

\* C24 as stated: a detection request is sent exactly when autoDetect is requested and
\* the text is longer than 10 characters, and at most one detection request and one
\* translation request are sent
C24_Original ==
    /\ entry = "POST" => Requests("detect") <= 1 /\ Requests("translate") <= 1
    /\ Served => (Requests("detect") >= 1 <=> AskedToDetect)

\* C24: POST calls the completion API for a detection at most once and for a
\* translation at most once, each call sent at most 1 + maxRetries times; the
\* detection call is made exactly when autoDetect is requested, the text is longer
\* than 10 characters and its trimmed length is at least 3
C24_OneDetectionOneTranslation ==
    /\ entry = "POST" =>
          /\ Calls("detect") <= 1 /\ Calls("translate") <= 1
          /\ Requests("detect") <= Calls("detect") * (1 + MaxRetries)
          /\ Requests("translate") <= Calls("translate") * (1 + MaxRetries)
    /\ Served =>
          (Calls("detect") = 1 <=> (AskedToDetect /\ Length(Trim(req.text.runs)) >= 3))

C24_Witness ==
    Served /\ Calls("detect") = 1 /\ Calls("translate") = 1 /\ Requests("detect") = 1

----------------------------------------------------------------------------
(* Claims about the translations in progress in TranslationInterface *)

\* C25: at most one translation flow of TranslationInterface is in progress
C25_AtMostOneFlow == Len(flows) <= 1

----------------------------------------------------------------------------
(* Claims about stopping the recogniser *)

\* the recogniser is started or about to start
Running == recognizer \in {"starting", "active"}

\* C26: after a call of stopListening the recogniser is not running (and so cannot
\* deliver results until startListening is called again)
C26_StoppedAfterStop == [][TI_stopListening => ~Running']_vars

----------------------------------------------------------------------------
(* Claims about the order of the messages of a conversation *)

\* C27: the messages are listed in the order in which their transcripts were handed to
\* handleMessage, and no transcript has two messages
C27_OrderedByUtterance ==
    /\ \A i, j \in 1..Len(messages) :
          i < j => messages[i].utterance < messages[j].utterance
    /\ \A i, j \in 1..Len(appended) :
          i # j => appended[i].utterance # appended[j].utterance

----------------------------------------------------------------------------
(* Claims about the speakers of a conversation *)

\* a start was accepted for a speaker
StartAcceptedFor(speaker) == currentSpeaker # speaker /\ currentSpeaker' = speaker

\* C28: currentSpeaker is non-null exactly when isListening is true, and a start is
\* accepted for a speaker only while no speaker is the current one
C28_OneSpeaker ==
    /\ [](currentSpeaker # "null" <=> CM_isListening)
    /\ [][\A speaker \in Senders : StartAcceptedFor(speaker) => currentSpeaker = "null"]_vars

C28_Witness ==
    /\ currentSpeaker = "user_2" /\ CM_isListening /\ recognizer = "active"
    /\ \E n \in 1..Len(messages) : messages[n].sender = "user_1"

----------------------------------------------------------------------------
(* Claims about deleting from the history view *)

\* handleDelete is suspended at await deleteTranslation
Deleting == op.caller = "handleDelete" /\ op.state = "wait"

\* the step in which await deleteTranslation resumes
DeleteResumes == Deleting /\ op'.state = "done"

\* C29: the displayed list loses a record only in the step in which a delete of that
\* record is answered with success; a failed delete leaves the list as it is; the
\* deleting marker is reset when the delete is answered and is set only while one is
\* awaited
C29_RemovedAfterDelete ==
    /\ [](isDeleting # 0 => Deleting)
    /\ [][DeleteResumes =>
            /\ isDeleting' = 0
            /\ found'.status # 200 => translations' = translations
            /\ found'.status = 200 =>
                  /\ Shown' = Shown \ {op.id}
                  /\ op.id \notin IdsOf(store')]_vars
    /\ [][(~DeleteResumes /\ op.caller # "loadData") => translations' = translations]_vars

C29_Witness ==
    /\ op.caller = "handleDelete" /\ op.state = "done" /\ result.kind = "throw"
    /\ isDeleting = 0 /\ op.id \in Shown

----------------------------------------------------------------------------
(* Claims about the isTranslating flag *)

\* with a provider and a store that answer, a set flag is eventually reset
FlagEventuallyReset == isTranslating ~> ~isTranslating

\* with a provider and a store that answer, the flows in progress eventually end
FlowsEventuallyEnd == [](Len(flows) = MaxFlows => <>(Len(flows) < MaxFlows))

\* C30: isTranslating is true in every state in which a translation flow of the
\* component is outstanding
C30_FlagCoversFlows == flows # <<>> => isTranslating

====
